---- MODULE Spec2Model ----
(***************************************************************************)
(* AzuraJS request routing and dispatch core.                              *)
(*                                                                         *)
(*  - Router (src/package/src/infra/Router.ts): the routing trie, add and  *)
(*    find, over paths that are sequences of characters.                   *)
(*  - adaptRequestHandler, in its two implementations                      *)
(*    (src/package/src/infra/utils/RequestHandler.ts, "v1", and            *)
(*    src/package/azurajs/src/infra/utils/RequestHandler.ts, "v2").        *)
(*  - AzuraClient.handle / AzuraClient.fetch: the per-request chain        *)
(*    driven by next(), and the error responder.                           *)
(***************************************************************************)
EXTENDS Integers, Sequences, FiniteSets, TLC

VARIABLES
    children,     \* Router.root: the set of trie nodes, each named by its key path
    paramName,    \* Node.paramName of every parameter node
    handlers,     \* Node.handlers: <<node, METHOD>> -> chain
    nAdds,        \* number of Router.add calls made so far
    added,        \* the Router.add calls made so far: method and path, in order
    subRouter,    \* a second Router: its add calls, and its mounting by use
    found         \* the last Router.find call and its outcome

VARIABLES
    adapter,      \* which adaptRequestHandler the build uses: "v1" or "v2"
    transport,    \* "node" (AzuraClient.handle) or "fetch" (AzuraClient.fetch)
    middlewares,  \* AzuraClient.middlewares, in registration order
    proxies,      \* AzuraClient.proxies: the paths registered by proxy(), in order
    top,          \* the transport function: "setup" (not called), "arrived"
                  \* (awaiting before its try block), "waiting" or "done"
    req,          \* rawReq: method, path, params, user
    chain,        \* the chain of the request
    idx,          \* the cursor of next()
    ent,          \* per chain entry: the user function, its adapter, its next() call
    stack,        \* the synchronous call stack: chain entries, innermost last
    started,      \* the chain entries invoked, in invocation order
    res,          \* rawRes: statusCode, body, ended, 'error' emitted
    client,       \* what the client received
    handled,      \* the errors passed to errorHandler, in order
    unhandled,    \* whether a promise rejected with nothing handling it
    otherRequest, \* another request of the same server, while this one runs
    proxying,     \* the proxy that matched the request, and the proxy handlers called
    resolved      \* two requests with the same peer, and the ip resolved for each

rvars == <<children, paramName, handlers, nAdds, added, subRouter, found>>
dvars == <<adapter, transport, middlewares, proxies, top, req, chain, idx, ent, stack,
           started, res, client, handled, unhandled, otherRequest, proxying, resolved>>
vars == <<children, paramName, handlers, nAdds, added, subRouter, otherRequest, found, adapter,
          transport, middlewares, proxies, top, req, chain, idx, ent, stack, started, res,
          client, handled, unhandled, proxying, resolved>>

(***************************************************************************)
(* Bounds                                                                  *)
(***************************************************************************)
MaxAdds == 2
MaxPathLen == 3
MaxMiddlewares == 2
MaxRoutes == 1

(***************************************************************************)
(* Strings are sequences of one-character strings.                         *)
(***************************************************************************)
Char == {"/", ":", "?", "a", "b"}

RECURSIVE StringsUpTo(_)
StringsUpTo(n) ==
    IF n = 0 THEN {<<>>}
    ELSE LET shorter == StringsUpTo(n - 1)
         IN  shorter \cup {Append(s, c) : s \in {t \in shorter : Len(t) = n - 1}, c \in Char}

\* String.prototype.split(sep) for a one-character separator.
RECURSIVE split(_, _)
split(s, sep) ==
    IF s = <<>> THEN << <<>> >>
    ELSE LET rest == split(Tail(s), sep)
         IN  IF Head(s) = sep
             THEN << <<>> >> \o rest
             ELSE << <<Head(s)>> \o Head(rest) >> \o Tail(rest)

\* Array.prototype.filter(Boolean) on strings: the empty string is falsy.
RECURSIVE filterBoolean(_)
filterBoolean(parts) ==
    IF parts = <<>> THEN <<>>
    ELSE IF Head(parts) = <<>> THEN filterBoolean(Tail(parts))
    ELSE <<Head(parts)>> \o filterBoolean(Tail(parts))

startsWithColon(seg) == Len(seg) > 0 /\ seg[1] = ":"

\* seg.slice(1)
slice1(seg) == IF Len(seg) = 0 THEN <<>> ELSE Tail(seg)

\* String.prototype.toUpperCase on the method names in use.
toUpperCase(m) ==
    CASE m = "get" -> "GET"
      [] m = "Get" -> "GET"
      [] m = "post" -> "POST"
      [] OTHER -> m

(***************************************************************************)
(* Router                                                                  *)
(***************************************************************************)
paramKey == <<":">>
root == <<>>

\* Router.add, lines 20 and 28-66: the node path walked (and created) for a
\* route path. Each step's key is ":" for a segment starting with ':' and the
\* segment text otherwise.
addSegments(path) == filterBoolean(split(path, "/"))

addKey(seg) == IF startsWithColon(seg) THEN paramKey ELSE seg

RECURSIVE addWalk(_, _)
addWalk(node, segs) ==
    IF segs = <<>> THEN <<node>>
    ELSE <<node>> \o addWalk(Append(node, addKey(Head(segs))), Tail(segs))

\* Mutant: a segment naming an existing parameter child renames it.
RECURSIVE addNames_LastName(_, _, _)
addNames_LastName(node, segs, known) ==
    IF segs = <<>> THEN known
    ELSE LET seg == Head(segs)
             child == Append(node, addKey(seg))
             k2 == IF startsWithColon(seg)
                   THEN [n \in DOMAIN known \cup {child} |->
                            IF n = child THEN slice1(seg) ELSE known[n]]
                   ELSE known
         IN  addNames_LastName(child, Tail(segs), k2)

\* The parameter nodes first created by this add, with the name each gets
\* (child.paramName = seg.slice(1)); an existing parameter child keeps its name.
RECURSIVE addNames(_, _, _)
addNames(node, segs, known) ==
    IF segs = <<>> THEN known
    ELSE LET seg == Head(segs)
             child == Append(node, addKey(seg))
             k2 == IF startsWithColon(seg) /\ child \notin DOMAIN known
                   THEN [n \in DOMAIN known \cup {child} |->
                            IF n = child THEN slice1(seg) ELSE known[n]]
                   ELSE known
         IN  addNames(child, Tail(segs), k2)

lastOf(seq) == seq[Len(seq)]

\* Mutant: a chain already registered for the method at the node is kept.
Add_KeepFirst(method, path, hs) ==
    LET segs == addSegments(path)
        walk == addWalk(root, segs)
        node == lastOf(walk)
        key == <<node, toUpperCase(method)>>
    IN  /\ children' = children \cup {walk[i] : i \in 1..Len(walk)}
        /\ paramName' = addNames(root, segs, paramName)
        /\ handlers' = [k \in DOMAIN handlers \cup {key} |->
                           IF k \in DOMAIN handlers THEN handlers[k] ELSE hs]
        /\ added' = Append(added, [method |-> method, path |-> path])
        /\ UNCHANGED subRouter

\* Mutant: the chains of the other methods at the node are dropped.
Add_ResetNode(method, path, hs) ==
    LET segs == addSegments(path)
        walk == addWalk(root, segs)
        node == lastOf(walk)
        key == <<node, toUpperCase(method)>>
        kept == {k \in DOMAIN handlers : k[1] # node}
    IN  /\ children' = children \cup {walk[i] : i \in 1..Len(walk)}
        /\ paramName' = addNames(root, segs, paramName)
        /\ handlers' = [k \in kept \cup {key} |-> IF k = key THEN hs ELSE handlers[k]]
        /\ added' = Append(added, [method |-> method, path |-> path])
        /\ UNCHANGED subRouter

\* Router.add, lines 19-73, on this router.
Add(method, path, hs) ==
    LET segs == addSegments(path)
        walk == addWalk(root, segs)
        node == lastOf(walk)
        key == <<node, toUpperCase(method)>>
    IN  /\ children' = children \cup {walk[i] : i \in 1..Len(walk)}
        /\ paramName' = addNames(root, segs, paramName)
        /\ handlers' = [k \in DOMAIN handlers \cup {key} |->
                           IF k = key THEN hs ELSE handlers[k]]
        /\ added' = Append(added, [method |-> method, path |-> path])
        /\ UNCHANGED subRouter

\* Mutant: the query string is not cut off.
cleanPath_KeepQuery(path) == IF path = <<>> THEN <<"/">> ELSE path

\* Router.find, lines 76-77.
cleanPath(path) ==
    LET first == Head(split(path, "?"))
    IN  IF first = <<>> THEN <<"/">> ELSE first

findSegments(path) ==
    LET cp == cleanPath(path)
    IN  IF cp = <<"/">> THEN <<>> ELSE filterBoolean(split(cp, "/"))

NoParams == [n \in {} |-> <<>>]

bind(params, name, seg) ==
    [n \in DOMAIN params \cup {name} |-> IF n = name THEN seg ELSE params[n]]

\* Mutant: the parameter child tried before the literal child.
RECURSIVE findWalk_ParamFirst(_, _, _)
findWalk_ParamFirst(node, segs, params) ==
    IF segs = <<>> THEN [ok |-> TRUE, node |-> node, params |-> params]
    ELSE LET seg == Head(segs)
             lit == Append(node, seg)
             par == Append(node, paramKey)
         IN  IF par \in children
             THEN findWalk_ParamFirst(par, Tail(segs),
                           IF par \in DOMAIN paramName /\ paramName[par] # <<>>
                           THEN bind(params, paramName[par], seg)
                           ELSE params)
             ELSE IF lit \in children
             THEN findWalk_ParamFirst(lit, Tail(segs), params)
             ELSE [ok |-> FALSE, node |-> node, params |-> params]

\* Mutant: the parameter child of the root is not tried (routes starting with
\* a parameter do not resolve).
RECURSIVE findWalk_NoRootParam(_, _, _)
findWalk_NoRootParam(node, segs, params) ==
    IF segs = <<>> THEN [ok |-> TRUE, node |-> node, params |-> params]
    ELSE LET seg == Head(segs)
             lit == Append(node, seg)
             par == Append(node, paramKey)
         IN  IF lit \in children
             THEN findWalk_NoRootParam(lit, Tail(segs), params)
             ELSE IF par \in children /\ node # root
             THEN findWalk_NoRootParam(par, Tail(segs),
                           IF par \in DOMAIN paramName /\ paramName[par] # <<>>
                           THEN bind(params, paramName[par], seg)
                           ELSE params)
             ELSE [ok |-> FALSE, node |-> node, params |-> params]

\* Mutant: when the walk through the literal child fails, the walk is retried
\* through the parameter child.
RECURSIVE findWalk_Backtrack(_, _, _)
findWalk_Backtrack(node, segs, params) ==
    IF segs = <<>> THEN [ok |-> TRUE, node |-> node, params |-> params]
    ELSE LET seg == Head(segs)
             lit == Append(node, seg)
             par == Append(node, paramKey)
             viaLit == findWalk_Backtrack(lit, Tail(segs), params)
             viaPar == findWalk_Backtrack(par, Tail(segs),
                           IF par \in DOMAIN paramName /\ paramName[par] # <<>>
                           THEN bind(params, paramName[par], seg)
                           ELSE params)
         IN  IF lit \in children /\ viaLit.ok THEN viaLit
             ELSE IF par \in children THEN viaPar
             ELSE [ok |-> FALSE, node |-> node, params |-> params]

\* Router.find, lines 86-118: the walk over the request segments. The result is
\* the node reached and the params bound, or a failure at a segment.
RECURSIVE findWalk(_, _, _)
findWalk(node, segs, params) ==
    IF segs = <<>> THEN [ok |-> TRUE, node |-> node, params |-> params]
    ELSE LET seg == Head(segs)
             lit == Append(node, seg)
             par == Append(node, paramKey)
         IN  IF lit \in children
             THEN findWalk(lit, Tail(segs), params)
             ELSE IF par \in children
             THEN findWalk(par, Tail(segs),
                           IF par \in DOMAIN paramName /\ paramName[par] # <<>>
                           THEN bind(params, paramName[par], seg)
                           ELSE params)
             ELSE [ok |-> FALSE, node |-> node, params |-> params]

\* The JavaScript values undefined and null, where a record is expected.
Undefined == [undefined |-> TRUE]
Null == [null |-> TRUE]

\* new HttpError(status, message, payload); an absent message is the string
\* "undefined", an absent payload is Undefined.
HttpError(status, message, payload) ==
    [kind |-> "HttpError", status |-> status,
     message |-> IF message = "undefined" THEN "Error" ELSE message,
     payload |-> payload]

RouteNotFound == HttpError(404, "Route not found", Undefined)

\* Mutant: a missing method answered with 405 instead of 404.
find_405(method, path) ==
    LET w == findWalk(root, findSegments(path), NoParams)
        key == <<w.node, toUpperCase(method)>>
    IN  IF ~w.ok
        THEN [ok |-> FALSE, why |-> "segment", error |-> RouteNotFound,
              handlers |-> <<>>, params |-> NoParams]
        ELSE IF key \notin DOMAIN handlers
        THEN [ok |-> FALSE, why |-> "method",
              error |-> HttpError(405, "Method not allowed", Undefined),
              handlers |-> <<>>, params |-> NoParams]
        ELSE [ok |-> TRUE, why |-> "none", error |-> RouteNotFound,
              handlers |-> handlers[key], params |-> w.params]

\* Router.find, lines 75-141: {handlers, params}, or the HttpError thrown.
find(method, path) ==
    LET w == findWalk(root, findSegments(path), NoParams)
        key == <<w.node, toUpperCase(method)>>
    IN  IF ~w.ok
        THEN [ok |-> FALSE, why |-> "segment", error |-> RouteNotFound,
              handlers |-> <<>>, params |-> NoParams]
        ELSE IF key \notin DOMAIN handlers
        THEN [ok |-> FALSE, why |-> "method", error |-> RouteNotFound,
              handlers |-> <<>>, params |-> NoParams]
        ELSE [ok |-> TRUE, why |-> "none", error |-> RouteNotFound,
              handlers |-> handlers[key], params |-> w.params]

(***************************************************************************)
(* A Router as a value: what a sequence of add calls builds.  A second     *)
(* router (the one passed to use) is such a value.  `nodes` and `keys`     *)
(* keep the insertion order of the Maps (Node.children, Node.handlers),    *)
(* which listRoutes iterates.                                              *)
(***************************************************************************)
\* new Router()
NewRouter ==
    [children |-> {root}, paramName |-> NoParams, handlers |-> [k \in {} |-> <<>>],
     nodes |-> <<>>, keys |-> <<>>, middlewares |-> <<>>]

\* The nodes of a walk that do not exist yet, in the order add creates them.
RECURSIVE created(_, _)
created(walk, existing) ==
    IF walk = <<>> THEN <<>>
    ELSE IF Head(walk) \in existing THEN created(Tail(walk), existing)
    ELSE <<Head(walk)>> \o created(Tail(walk), existing)

\* Router.add, lines 19-73, on a router value.
addTo(t, method, path, hs) ==
    LET segs == addSegments(path)
        walk == addWalk(root, segs)
        node == lastOf(walk)
        key == <<node, toUpperCase(method)>>
    IN  [children |-> t.children \cup {walk[i] : i \in 1..Len(walk)},
         paramName |-> addNames(root, segs, t.paramName),
         handlers |-> [k \in DOMAIN t.handlers \cup {key} |->
                          IF k = key THEN hs ELSE t.handlers[k]],
         nodes |-> t.nodes \o created(walk, t.children),
         keys |-> IF key \in DOMAIN t.handlers THEN t.keys ELSE Append(t.keys, key),
         middlewares |-> t.middlewares]

\* The router built by a sequence of add calls [method, path, handlers].
RECURSIVE routerOf(_)
routerOf(calls) ==
    IF calls = <<>> THEN NewRouter
    ELSE LET c == calls[Len(calls)]
         IN  addTo(routerOf(SubSeq(calls, 1, Len(calls) - 1)), c.method, c.path, c.handlers)

\* Router.find, lines 86-118, on a router value.
RECURSIVE walkIn(_, _, _, _)
walkIn(t, node, segs, params) ==
    IF segs = <<>> THEN [ok |-> TRUE, node |-> node, params |-> params]
    ELSE LET seg == Head(segs)
             lit == Append(node, seg)
             par == Append(node, paramKey)
         IN  IF lit \in t.children
             THEN walkIn(t, lit, Tail(segs), params)
             ELSE IF par \in t.children
             THEN walkIn(t, par, Tail(segs),
                         IF par \in DOMAIN t.paramName /\ t.paramName[par] # <<>>
                         THEN bind(params, t.paramName[par], seg)
                         ELSE params)
             ELSE [ok |-> FALSE, node |-> node, params |-> params]

\* Router.find, lines 75-141, on a router value.
findIn(t, method, path) ==
    LET w == walkIn(t, root, findSegments(path), NoParams)
        key == <<w.node, toUpperCase(method)>>
    IN  IF ~w.ok
        THEN [ok |-> FALSE, why |-> "segment", error |-> RouteNotFound,
              handlers |-> <<>>, params |-> NoParams]
        ELSE IF key \notin DOMAIN t.handlers
        THEN [ok |-> FALSE, why |-> "method", error |-> RouteNotFound,
              handlers |-> <<>>, params |-> NoParams]
        ELSE [ok |-> TRUE, why |-> "none", error |-> RouteNotFound,
              handlers |-> t.handlers[key], params |-> w.params]

\* The children of a node, in the insertion order of node.children.
childrenOf(t, node) ==
    SelectSeq(t.nodes, LAMBDA n : Len(n) = Len(node) + 1 /\ SubSeq(n, 1, Len(node)) = node)

\* The keys of node.handlers, in insertion order.
methodsOf(t, node) == SelectSeq(t.keys, LAMBDA k : k[1] = node)

\* Router.listRoutes, lines 153-154: the path of a child.
newPath(t, path, child) ==
    LET segment == lastOf(child)
    IN  path \o <<"/">> \o
           (IF segment = paramKey /\ child \in DOMAIN t.paramName
                                  /\ t.paramName[child] # <<>>
            THEN <<":">> \o t.paramName[child]
            ELSE segment)

\* Router.listRoutes, lines 146-157: traverse(node, path), and its loop over
\* the children.
RECURSIVE traverse(_, _, _)
RECURSIVE traverseEach(_, _, _)
traverse(t, node, path) ==
    LET ms == methodsOf(t, node)
        own == [i \in 1..Len(ms) |->
                   [method |-> ms[i][2], path |-> IF path = <<>> THEN <<"/">> ELSE path]]
    IN  own \o traverseEach(t, childrenOf(t, node), path)

traverseEach(t, kids, path) ==
    IF kids = <<>> THEN <<>>
    ELSE traverse(t, Head(kids), newPath(t, path, Head(kids)))
            \o traverseEach(t, Tail(kids), path)

\* Router.listRoutes, lines 143-162.
listRoutes(t) == traverse(t, root, <<>>)

\* Router.use, line 170: prefixOrMw.endsWith("/") ? prefixOrMw.slice(0, -1) : prefixOrMw
mountPrefix(prefixOrMw) ==
    IF prefixOrMw # <<>> /\ lastOf(prefixOrMw) = "/"
    THEN SubSeq(prefixOrMw, 1, Len(prefixOrMw) - 1)
    ELSE prefixOrMw

\* Mutant: the route is added under its own path, without the prefix.
fullPath_NoPrefix(prefix, path) == IF path = <<"/">> THEN <<>> ELSE path

\* Router.use, line 174: prefix + (route.path === "/" ? "" : route.path)
fullPath(prefix, path) == prefix \o (IF path = <<"/">> THEN <<>> ELSE path)

\* Mutant: a mounted route runs the middleware of the router it came from.
RECURSIVE useRoutes_InheritMiddlewares(_, _, _, _)
useRoutes_InheritMiddlewares(acc, prefix, sub, routes) ==
    IF routes = <<>> THEN acc
    ELSE LET route == Head(routes)
             f == findIn(sub, route.method, route.path)
             path == fullPath(prefix, route.path)
         IN  IF ~f.ok THEN [acc EXCEPT !.thrown = TRUE]
             ELSE useRoutes_InheritMiddlewares(
                            [router |-> addTo(acc.router, route.method, path,
                                              sub.middlewares \o f.handlers),
                             calls |-> Append(acc.calls, [method |-> route.method,
                                                          path |-> path]),
                             thrown |-> FALSE],
                            prefix, sub, Tail(routes))

\* Router.use, lines 173-177: the loop over the routes of `sub`. A find that
\* throws ends the loop and the call, with the routes added so far kept.
RECURSIVE useRoutes(_, _, _, _)
useRoutes(acc, prefix, sub, routes) ==
    IF routes = <<>> THEN acc
    ELSE LET route == Head(routes)
             f == findIn(sub, route.method, route.path)
             path == fullPath(prefix, route.path)
         IN  IF ~f.ok THEN [acc EXCEPT !.thrown = TRUE]
             ELSE useRoutes([router |-> addTo(acc.router, route.method, path, f.handlers),
                             calls |-> Append(acc.calls, [method |-> route.method,
                                                          path |-> path]),
                             thrown |-> FALSE],
                            prefix, sub, Tail(routes))

\* Router.use(mw), lines 167-168: this.middlewares.push(prefixOrMw)
useMiddleware(t, mw) == [t EXCEPT !.middlewares = Append(@, mw)]

\* Router.use(prefix, router), lines 169-178 (AzuraClient.use, lines 146-154,
\* is the same code on this.router).
use(t, prefixOrMw, sub) ==
    useRoutes([router |-> t, calls |-> <<>>, thrown |-> FALSE],
              mountPrefix(prefixOrMw), sub, listRoutes(sub))

(***************************************************************************)
(* Errors                                                                  *)
(***************************************************************************)
NoError == [kind |-> "none", status |-> 0, message |-> "", payload |-> Undefined]

\* new Error(message): no status, no payload.
PlainError(message) ==
    [kind |-> "Error", status |-> 0, message |-> message, payload |-> Undefined]

\* The TypeError of reading a property of undefined or calling undefined.
TypeError == PlainError("TypeError")

\* Node's ERR_HTTP_HEADERS_SENT, thrown by setHeader once the response ended.
HeadersSent == PlainError("ERR_HTTP_HEADERS_SENT")

\* An object that is not an HttpError but has status, message and payload.
StatusObject(status, message, payload) ==
    [kind |-> "object", status |-> status, message |-> message, payload |-> payload]

\* A thrown string: it has no message property.
ThrownString(value) ==
    [kind |-> "string", status |-> 0, message |-> "undefined", payload |-> Undefined,
     value |-> value]

\* The errors the user handlers raise.
UserErrors ==
    { HttpError(401, "Unauthorized", Undefined),
      PlainError("boom"),
      StatusObject(401, "nope", [detail |-> "denied"]) }

\* The values passed to the error responder on its own.
ErrorStatuses == {400, 401, 404, 503}
ErrorMessages == {"undefined", "", "Unauthorized"}
ErrorPayloads == {Undefined, Null, [field |-> "email"]}

ErrorValues ==
    {HttpError(st, m, pl) : st \in ErrorStatuses, m \in ErrorMessages, pl \in ErrorPayloads}
        \cup {StatusObject(st, m, pl) :
                 st \in ErrorStatuses, m \in ErrorMessages, pl \in ErrorPayloads}
        \cup {PlainError(m) : m \in {"", "boom"}}
        \cup {ThrownString(v) : v \in {"", "boom"}}

\* err instanceof HttpError
instanceofHttpError(err) == err.kind = "HttpError"

\* err.message || "Internal Server Error"
messageOr(err) ==
    IF err.message = "undefined" \/ err.message = ""
    THEN "Internal Server Error" ELSE err.message

\* Mutant: any status field is propagated.
errorStatus_AnyStatus(err) == IF err.status # 0 THEN err.status ELSE 500

\* The status argument of errorHandler.
errorStatus(err) == IF instanceofHttpError(err) THEN err.status ELSE 500

\* The body argument of errorHandler.
errorBody(err) ==
    IF instanceofHttpError(err) /\ err.payload # Undefined /\ err.payload # Null
    THEN err.payload
    ELSE [error |-> messageOr(err)]

(***************************************************************************)
(* User handlers: a declared parameter list, async or not, and a body that *)
(* is a sequence of operations.                                            *)
(*   "work"   await of asynchronous work: a promise that resolves within   *)
(*            the turn of the event loop, or a timer or I/O that ends in   *)
(*            a later turn                                                 *)
(*   "set"    req.user = ...                                               *)
(*   "read"   reads req.user                                               *)
(*   "write"  res.json({by: this entry, user: what "read" saw})            *)
(*   "send"   res.send(text naming this entry and what "read" saw)         *)
(*   "sendo"  res.send({by: this entry, user: what "read" saw})            *)
(*   "next"   next()             "anext"  await next() / return next()     *)
(*   "nerr"   next(err)          "anerr"  await next(err) / return next(err) *)
(*   "throw"  throw err                                                    *)
(*   "canext" try { await next() } catch (e) { res.status(500).json(...) } *)
(*   "end204" ctx.res.status(204).send()                                   *)
(*   "redirect" res.redirect("/login")                                     *)
(***************************************************************************)
Handler(style, async, script) == [style |-> style, async |-> async, script |-> script]

Library ==
    [ cbPass   |-> Handler("callback", TRUE, <<"work", "set", "next">>),
      dsPass   |-> Handler("destructured", TRUE, <<"work", "set", "anext">>),
      barePass |-> Handler("bare", TRUE, <<"work", "set", "anext">>),
      cbErr    |-> Handler("callback", FALSE, <<"nerr">>),
      cbRetErr |-> Handler("callback", FALSE, <<"anerr">>),
      dsErr    |-> Handler("destructured", FALSE, <<"nerr">>),
      cbThrow  |-> Handler("callback", FALSE, <<"throw">>),
      dsThrow  |-> Handler("destructured", TRUE, <<"work", "throw">>),
      dsTwice  |-> Handler("destructured", TRUE, <<"next", "next">>),
      hSync    |-> Handler("destructured", FALSE, <<"read", "write">>),
      hAsync   |-> Handler("destructured", TRUE, <<"work", "read", "write">>),
      hPair    |-> Handler("pair", FALSE, <<"read", "write">>),
      hBare    |-> Handler("bare", FALSE, <<"read", "write">>),
      cbTwice        |-> Handler("callback", FALSE, <<"next", "nerr">>),
      cbErrTwice     |-> Handler("callback", FALSE, <<"nerr", "next">>),
      cbNextThrow    |-> Handler("callback", FALSE, <<"next", "throw">>),
      cbAsyncErr     |-> Handler("callback", TRUE, <<"work", "nerr">>),
      cbAsyncThrow   |-> Handler("callback", TRUE, <<"work", "throw">>),
      cbAsyncNextThrow |-> Handler("callback", TRUE, <<"next", "work", "throw">>),
      cbEnd          |-> Handler("callback", FALSE, <<"write">>),
      pairThrow      |-> Handler("pair", FALSE, <<"throw">>),
      bareThrow      |-> Handler("bare", TRUE, <<"work", "throw">>),
      dsWriteNext    |-> Handler("destructured", TRUE, <<"write", "work", "anext">>),
      dsWriteThrow   |-> Handler("destructured", FALSE, <<"write", "throw">>),
      dsWriteTwice   |-> Handler("destructured", FALSE, <<"write", "write">>),
      dsSendTwice    |-> Handler("destructured", FALSE, <<"send", "send">>),
      dsSendObjects  |-> Handler("destructured", FALSE, <<"sendo", "sendo">>),
      dsWriteNerr    |-> Handler("destructured", FALSE, <<"write", "nerr">>),
      cbWriteThrow   |-> Handler("callback", FALSE, <<"write", "throw">>),
      dsNext         |-> Handler("destructured", FALSE, <<"anext">>),
      cbNext         |-> Handler("callback", FALSE, <<"next">>),
      dsCatch        |-> Handler("destructured", TRUE, <<"canext">>),
      dsSetThrow     |-> Handler("destructured", FALSE, <<"set", "throw">>),
      dsRedirectSend |-> Handler("destructured", FALSE, <<"redirect", "send">>),
      dsWriteRedirect |-> Handler("destructured", FALSE, <<"write", "redirect">>),
      cbNextWrite    |-> Handler("callback", TRUE, <<"next", "work", "write">>),
      favicon        |-> Handler("context", FALSE, <<"end204">>) ]

\* Function.length of a user handler; the bare-object idiom is a function whose
\* declared parameter count is none of 1, 2, 3.
fnLength(h) ==
    CASE h.style = "callback" -> 3
      [] h.style = "pair" -> 2
      [] h.style = "destructured" -> 1
      [] h.style = "context" -> 1
      [] h.style = "bare" -> 0

\* The functions passed to use().
Middleware ==
    {"cbPass", "dsPass", "barePass", "cbErr", "cbRetErr", "dsErr", "cbThrow",
     "dsThrow", "dsTwice"}

\* The route registrations made through addRoute.
RouteDefs ==
    { [method |-> "GET", path |-> <<"/", ":", "a">>, fns |-> <<"hSync">>],
      [method |-> "GET", path |-> <<"/", "a">>, fns |-> <<"hAsync">>],
      [method |-> "GET", path |-> <<"/", "a">>, fns |-> <<"cbPass", "hSync">>],
      [method |-> "GET", path |-> <<"/", "a">>, fns |-> <<"hPair">>],
      [method |-> "GET", path |-> <<"/", "a">>, fns |-> <<"hBare">>] }

\* /favicon.ico
pFavicon == <<"/", "f", "a", "v", "i", "c", "o", "n", ".", "i", "c", "o">>

\* The requests dispatched.
Requests ==
    { [method |-> "GET", path |-> <<"/", "a">>],
      [method |-> "POST", path |-> <<"/", "a">>],
      [method |-> "GET", path |-> <<"/", "b">>] }

\* The requests dispatched, and one for a default route.
AnyRequests == Requests \cup {[method |-> "GET", path |-> pFavicon]}

(***************************************************************************)
(* adaptRequestHandler. A handler value is the user function it wraps and  *)
(* the number of adapters around it; the context an adapter receives is    *)
(* described by which of its fields are defined.                           *)
(***************************************************************************)
raw(name) == [fn |-> name, wraps |-> 0]

adaptRequestHandler(h) == [fn |-> h.fn, wraps |-> h.wraps + 1]

\* The context next() passes to a chain entry: request, response, req, res, next.
FullContext == [request |-> TRUE, response |-> TRUE, req |-> TRUE, res |-> TRUE]

\* req and res as the adapter reads them from its context.
ctxRequest(ad, ctx) == IF ad = "v2" THEN ctx.request \/ ctx.req ELSE ctx.request
ctxResponse(ad, ctx) == IF ad = "v2" THEN ctx.response \/ ctx.res ELSE ctx.response

\* The object an adapter passes to a function of declared length 1.
contextFor1(ad, ctx) ==
    [request |-> FALSE, response |-> FALSE,
     req |-> ctxRequest(ad, ctx), res |-> ctxResponse(ad, ctx)]

\* The context received by the innermost of `wraps` adapters: every outer
\* adapter wraps an adapted function, whose declared length is 1.
RECURSIVE ctxAt(_, _)
ctxAt(ad, wraps) ==
    IF wraps <= 1 THEN FullContext ELSE contextFor1(ad, ctxAt(ad, wraps - 1))

\* v2 only: "Request or Response object is undefined", at any layer.
RECURSIVE missingFacade(_, _)
missingFacade(ad, wraps) ==
    /\ ad = "v2"
    /\ wraps >= 1
    /\ \/ ~(ctxRequest(ad, ctxAt(ad, wraps)) /\ ctxResponse(ad, ctxAt(ad, wraps)))
       \/ missingFacade(ad, wraps - 1)

facade(defined, what) == IF defined THEN what ELSE "undefined"

\* What the user function finds as its req, res and next, by its style, when
\* the adapter that wraps it received ctx.
userArgs(ad, ctx, h) ==
    LET len == fnLength(h)
        one == contextFor1(ad, ctx)
    IN  IF len = 3
        THEN [req |-> facade(ctxRequest(ad, ctx), "request"),
              res |-> facade(ctxResponse(ad, ctx), "response"),
              next |-> "callback"]
        ELSE IF len = 2 /\ ad = "v2"
        THEN [req |-> facade(ctxRequest(ad, ctx), "request"),
              res |-> facade(ctxResponse(ad, ctx), "response"),
              next |-> "none"]
        ELSE IF len = 1
        THEN [req |-> facade(one.req, "request"),
              res |-> facade(one.res, "response"),
              next |-> "pipeline"]
        ELSE IF h.style = "pair"
        THEN [req |-> "context", res |-> "undefined", next |-> "none"]
        ELSE [req |-> facade(ctx.request, "request"),
              res |-> facade(ctx.response, "response"),
              next |-> "pipeline"]

\* The arguments of chain entry i of dispatch state d.
argsOf(d, i) ==
    userArgs(adapter, ctxAt(adapter, d.chain[i].wraps), Library[d.chain[i].fn])

handlerOf(d, i) == Library[d.chain[i].fn]

(***************************************************************************)
(* Promises and chain entries                                              *)
(***************************************************************************)
Pending == [s |-> "pending", e |-> NoError]
Resolved == [s |-> "ok", e |-> NoError]
Rejected(e) == [s |-> "err", e |-> e]

\* One chain entry: the user function (st, pc, wait, thrown, seen, result, the
\* number of its next() calls and the error it passed to next), the promise of
\* its adapter (adapted), the nextCalled flag of its callback (called), the
\* next() call that invoked it: its caller (by, 0 for handle / fetch), its
\* promise (nextp) and whether anything awaits that promise (watched), and the
\* error its catch block received (caught).
EntryIdle ==
    [st |-> "idle", pc |-> 1, wait |-> 0, thrown |-> NoError, seen |-> "unread",
     result |-> NoError, nexts |-> 0, signalled |-> NoError,
     adapted |-> Pending, called |-> FALSE,
     by |-> 0, nextp |-> Pending, watched |-> FALSE, caught |-> NoError]

NoRequest == [method |-> "", path |-> <<>>, params |-> NoParams, user |-> FALSE]
NoResponse == [none |-> TRUE]
\* No body: the null responseBody of fetch, end() without a chunk on handle.
NoBody == [empty |-> TRUE]

\* A string body, the sequence of its parts; "" is Text(<<>>).
Text(parts) == [text |-> parts]

\* typeof b === "string"
isText(b) == "text" \in DOMAIN b

\* b === undefined || b === null
isNullish(b) == b = Undefined \/ b = Null

\* A response not yet written: `location` is its Location header; `ends`
\* counts the calls of rawRes.end, `writes` those of them that ended the
\* response, which only the first does in Node; `headersSent` is set once the
\* headers have been written, by the first write or end, and `sent` is the
\* status written with them, 0 before; `closed` is set once
\* the ended response has been flushed and closed, in the turn of the event
\* loop after the one that ended it; `uncaught` is set when the response
\* emitted 'error', which nothing listens to, or when a callback of the proxy
\* threw: an uncaught exception of the process.
FreshResponse ==
    [status |-> 200, location |-> "none", body |-> NoBody, headersSent |-> FALSE,
     sent |-> 0, ended |-> FALSE, ends |-> 0, writes |-> 0, closed |-> FALSE,
     uncaught |-> FALSE]

\* No other request.
NoOther == [run |-> FALSE]

\* No ip has been resolved.
NoResolve == [done |-> FALSE]

\* No proxy matched the request: `at` is the position in `proxies` of the
\* proxy that matched, `invoked` the positions of the proxy handlers called,
\* `upstream` the state of the request the proxy handler made to its target:
\* "pending" once it is sent, "piping" once the response callback has piped the
\* target's response into rawRes, "flowing" once a chunk of its body has
\* arrived, "done" when nothing more comes from the target; `framing` how the
\* body of the target's response is delimited, "close" by the close of the
\* connection or "length" by a length or chunks; `piped` whether the pipe into
\* rawRes is attached.
NoProxy ==
    [at |-> 0, invoked |-> <<>>, upstream |-> "none", framing |-> "none",
     piped |-> FALSE]

\* The per-request state of handle / fetch.
DispatchIdle ==
    [req |-> NoRequest, chain |-> <<>>, idx |-> 0, ent |-> <<>>, stack |-> <<>>,
     started |-> <<>>, res |-> FreshResponse, client |-> NoResponse,
     handled |-> <<>>, unhandled |-> FALSE, proxying |-> NoProxy]

\* The call stack without the frames on top that returned or suspended.
RECURSIVE strip(_, _)
strip(stk, entries) ==
    IF stk = <<>> \/ entries[stk[Len(stk)]].st = "run" THEN stk
    ELSE strip(SubSeq(stk, 1, Len(stk) - 1), entries)

unwind(d) == [d EXCEPT !.stack = strip(d.stack, d.ent)]

(***************************************************************************)
(* The response facade and the error responder                             *)
(***************************************************************************)
\* The Node response writes no body with a status 204, 304 or 1xx.
hasBody(status) == ~(status \in {204, 304} \/ (status >= 100 /\ status <= 199))

\* What the client of a Node response receives when it ends with `chunk`.
received(status, chunk) ==
    [status |-> status, body |-> IF hasBody(status) THEN chunk ELSE NoBody]

\* A turn of the event loop ends: a response that has ended is flushed and
\* closed.
turn(d) == [d EXCEPT !.res.closed = @ \/ d.res.ended]

\* The body written so far followed by `chunk`.
appendChunk(body, chunk) ==
    IF chunk = NoBody THEN body
    ELSE IF body = NoBody THEN chunk
    ELSE Text(body.text \o chunk.text)

\* The status the Node response writes, or has written, with its headers.
statusSent(d) == IF d.res.headersSent THEN d.res.sent ELSE d.res.status

\* rawRes.end(chunk) of the Node response, no header being set: [d, threw].
\* The first call writes the headers, unless a write has, and the chunk, and
\* ends the response. On a response that has ended nothing is written and
\* nothing is thrown; a chunk that is not empty schedules 'error'
\* (ERR_STREAM_WRITE_AFTER_END) for the next tick, and the response emits it
\* unless it has been closed. The response that ends emits 'finish', on which
\* a pipe into it is undone.
end(d, chunk) ==
    IF d.res.ended
    THEN [d |-> [d EXCEPT !.res = [@ EXCEPT
                     !.ends = @ + 1,
                     !.uncaught = @ \/ (chunk # NoBody /\ chunk # Text(<<>>)
                                          /\ ~d.res.closed)]],
          threw |-> NoError]
    ELSE [d |-> [d EXCEPT !.res = [@ EXCEPT
                     !.body = appendChunk(d.res.body, chunk),
                     !.headersSent = TRUE, !.sent = statusSent(d),
                     !.ended = TRUE, !.ends = @ + 1, !.writes = @ + 1],
                          !.client = received(statusSent(d),
                                              appendChunk(d.res.body, chunk)),
                          !.proxying.piped = FALSE],
          threw |-> NoError]

\* rawRes.write(chunk) of the Node response, as the pipe of the proxy calls it
\* with a chunk that is not empty: the headers are written with the first
\* chunk; on a response that has ended nothing is written and 'error' is
\* scheduled as by end(chunk).
write(d, chunk) ==
    IF d.res.ended
    THEN [d EXCEPT !.res.uncaught = @ \/ ~d.res.closed]
    ELSE [d EXCEPT !.res = [@ EXCEPT !.body = appendChunk(d.res.body, chunk),
                                     !.headersSent = TRUE,
                                     !.sent = statusSent(d)]]

\* rawRes.json(body): [d, threw]. Node sets a header, which throws once the
\* headers have been sent, and ends the response; fetch records the body.
json(d, body) ==
    IF transport = "node"
    THEN IF d.res.headersSent
         THEN [d |-> d, threw |-> HeadersSent]
         ELSE end(d, body)
    ELSE [d |-> [d EXCEPT !.res = [@ EXCEPT !.body = body]], threw |-> NoError]

\* rawRes.redirect(code, u), code being 0 for redirect(u), which stands for
\* 302: [d, threw]. Node assigns statusCode, sets the Location header, which
\* throws once the headers have been sent, and calls end(); fetch records the
\* status and the header.
redirect(d, code, u) ==
    LET d1 == [d EXCEPT !.res.status = IF code = 0 THEN 302 ELSE code]
    IN  IF transport = "node"
        THEN IF d.res.headersSent
             THEN [d |-> d1, threw |-> HeadersSent]
             ELSE end([d1 EXCEPT !.res.location = u], NoBody)
        ELSE [d |-> [d1 EXCEPT !.res.location = u], threw |-> NoError]

\* rawRes.send(b): [d, threw]. Node: end() for undefined or null, the json
\* path for an object, end(String(b)) otherwise. fetch records "" for
\* undefined or null, the JSON text of an object, String(b) otherwise.
send(d, b) ==
    IF transport = "node"
    THEN IF isNullish(b) THEN end(d, NoBody)
         ELSE IF ~isText(b) THEN json(d, b)
         ELSE end(d, b)
    ELSE [d |-> [d EXCEPT !.res.body = IF isNullish(b) THEN Text(<<>>) ELSE b],
          threw |-> NoError]

\* errorHandler(err): status(...) then json(...).
errorHandler(d, err) ==
    json([d EXCEPT !.res = [@ EXCEPT !.status = errorStatus(err)],
                   !.handled = Append(@, err)],
         errorBody(err))

(***************************************************************************)
(* next(), the chain cursor of handle / fetch                              *)
(***************************************************************************)
\* A promise handed back to a caller: settled, or the nextp of entry `of`.
Settled(p) == [s |-> p.s, e |-> p.e, of |-> 0]
PromiseOf(i) == [s |-> "pending", e |-> NoError, of |-> i]

\* fn(ctx) for chain entry i: the adapters run down to the user function, which
\* starts executing on top of the caller.
invoke(d, i, caller) ==
    IF missingFacade(adapter, d.chain[i].wraps)
    THEN [d EXCEPT !.ent[i] = [EntryIdle EXCEPT
                                 !.by = caller,
                                 !.adapted = Rejected(PlainError("Request or Response object is undefined"))],
                   !.started = Append(@, i)]
    ELSE [d EXCEPT !.ent[i] = [EntryIdle EXCEPT !.st = "run", !.by = caller],
                   !.started = Append(@, i),
                   !.stack = Append(@, i)]

\* Mutant: next() past the last chain entry answers 404.
next_Implicit404(d, err, caller) ==
    IF err # NoError
    THEN LET r == errorHandler(d, err)
         IN  [d |-> r.d,
              p |-> Settled(IF r.threw = NoError THEN Resolved ELSE Rejected(r.threw))]
    ELSE IF d.idx >= Len(d.chain)
    THEN LET r == errorHandler(d, RouteNotFound)
         IN  [d |-> r.d,
              p |-> Settled(IF r.threw = NoError THEN Resolved ELSE Rejected(r.threw))]
    ELSE [d |-> invoke([d EXCEPT !.idx = d.idx + 1], d.idx + 1, caller),
          p |-> PromiseOf(d.idx + 1)]

\* next(err) called by `caller`, up to its first await: [d, p], p being the
\* promise it returns.
next(d, err, caller) ==
    IF err # NoError
    THEN LET r == errorHandler(d, err)
         IN  [d |-> r.d,
              p |-> Settled(IF r.threw = NoError THEN Resolved ELSE Rejected(r.threw))]
    ELSE IF d.idx >= Len(d.chain)
    THEN [d |-> d, p |-> Settled(Resolved)]
    ELSE [d |-> invoke([d EXCEPT !.idx = d.idx + 1], d.idx + 1, caller),
          p |-> PromiseOf(d.idx + 1)]

\* The first settlement of a promise wins.
settle(p, outcome) == IF p.s = "pending" THEN outcome ELSE p

\* The callback an adapter hands to a three-parameter function, called from
\* entry i: [d, p], p being what the call returns to the user function.
\*   v1: (err) => err ? reject(err) : resolve()   -- returns undefined
\*   v2: async (err) => { if (nextCalled) return; nextCalled = true;
\*                        if (err) throw err; await ctx.next(); }
callback(d, i, err) ==
    IF adapter = "v1"
    THEN [d |-> [d EXCEPT !.ent[i].adapted =
                     settle(@, IF err # NoError THEN Rejected(err) ELSE Resolved)],
          p |-> Settled(Resolved)]
    ELSE IF d.ent[i].called
    THEN [d |-> d, p |-> Settled(Resolved)]
    ELSE IF err # NoError
    THEN [d |-> [d EXCEPT !.ent[i].called = TRUE], p |-> Settled(Rejected(err))]
    ELSE next([d EXCEPT !.ent[i].called = TRUE], NoError, i)

(***************************************************************************)
(* The user function of chain entry i                                      *)
(***************************************************************************)
\* The user function throws e, or the promise it returned rejects with e: its
\* adapter's promise rejects unless it is already settled.
fail(d, i, e) ==
    [d EXCEPT !.ent[i].st = "fail", !.ent[i].result = e,
              !.ent[i].adapted = settle(@, Rejected(e))]

\* The user function returns, or the promise it returned resolves. The v1
\* adapter of a three-parameter function looks at the return value only when it
\* is thenable.
finish(d, i) ==
    LET h == handlerOf(d, i)
    IN  [d EXCEPT !.ent[i].st = "ret",
                  !.ent[i].adapted =
                      IF adapter = "v1" /\ fnLength(h) = 3 /\ ~h.async
                      THEN @ ELSE settle(@, Resolved)]

\* The user function calls its next with err (NoError: next()) and, when
\* awaited, waits for what the call returns.
callNext(d, i, err, awaited) ==
    LET kind == argsOf(d, i).next
        d1 == [d EXCEPT !.ent[i].pc = @ + 1,
                        !.ent[i].nexts = @ + 1,
                        !.ent[i].signalled = IF err # NoError THEN err ELSE @]
        r == IF kind = "callback" THEN callback(d1, i, err) ELSE next(d1, err, i)
    IN  IF kind = "none" THEN fail(d, i, TypeError)
        ELSE IF awaited
        THEN LET d2 == [r.d EXCEPT !.ent[i].st = "await",
                                   !.ent[i].wait = r.p.of,
                                   !.ent[i].thrown = r.p.e]
             IN  IF r.p.of # 0 THEN [d2 EXCEPT !.ent[r.p.of].watched = TRUE] ELSE d2
        ELSE [r.d EXCEPT !.unhandled = @ \/ r.p.s = "err"]

\* One operation of the body of the user function of entry i; e is the error a
\* "throw", "nerr" or "anerr" raises.
userStep(d, i, e) ==
    LET h == handlerOf(d, i)
        a == argsOf(d, i)
        pc == d.ent[i].pc
        op == h.script[pc]
        adv == [d EXCEPT !.ent[i].pc = @ + 1]
    IN  IF pc > Len(h.script) THEN finish(d, i)
        ELSE CASE op = "work" -> [adv EXCEPT !.ent[i].st = "work"]
               [] op = "set" ->
                    IF a.req = "undefined" THEN fail(d, i, TypeError)
                    ELSE IF a.req = "request" THEN [adv EXCEPT !.req.user = TRUE]
                    ELSE adv
               [] op = "read" ->
                    IF a.req = "undefined" THEN fail(d, i, TypeError)
                    ELSE [adv EXCEPT !.ent[i].seen =
                             IF a.req = "request" /\ d.req.user THEN "user" ELSE "nouser"]
               [] op = "write" ->
                    IF a.res = "undefined" THEN fail(d, i, TypeError)
                    ELSE LET r == json(adv, [by |-> i, user |-> d.ent[i].seen])
                         IN  IF r.threw = NoError THEN r.d ELSE fail(r.d, i, r.threw)
               [] op = "send" ->
                    IF a.res = "undefined" THEN fail(d, i, TypeError)
                    ELSE LET r == send(adv, Text(<<i, d.ent[i].seen>>))
                         IN  IF r.threw = NoError THEN r.d ELSE fail(r.d, i, r.threw)
               [] op = "sendo" ->
                    IF a.res = "undefined" THEN fail(d, i, TypeError)
                    ELSE LET r == send(adv, [by |-> i, user |-> d.ent[i].seen])
                         IN  IF r.threw = NoError THEN r.d ELSE fail(r.d, i, r.threw)
               [] op = "end204" ->
                    IF a.res = "undefined" THEN fail(d, i, TypeError)
                    ELSE LET r == send([adv EXCEPT !.res.status = 204], Undefined)
                         IN  IF r.threw = NoError THEN r.d ELSE fail(r.d, i, r.threw)
               [] op = "redirect" ->
                    IF a.res = "undefined" THEN fail(d, i, TypeError)
                    ELSE LET r == redirect(adv, 0, "/login")
                         IN  IF r.threw = NoError THEN r.d ELSE fail(r.d, i, r.threw)
               [] op = "next" -> callNext(d, i, NoError, FALSE)
               [] op = "anext" -> callNext(d, i, NoError, TRUE)
               [] op = "canext" -> callNext(d, i, NoError, TRUE)
               [] op = "nerr" -> callNext(d, i, e, FALSE)
               [] op = "anerr" -> callNext(d, i, e, TRUE)
               [] op = "throw" -> fail(d, i, e)

\* The errors the next operation of entry i can raise.
raisable(d, i) ==
    LET h == handlerOf(d, i)
        pc == d.ent[i].pc
    IN  IF pc <= Len(h.script) /\ h.script[pc] \in {"throw", "nerr", "anerr"}
        THEN UserErrors ELSE {NoError}

\* The catch block around `await next()` in the user function of entry i
\* receives e: res.status(500).json({error: "Internal Server Error"}), and the
\* function goes on after the block.
catch(d, i, e) ==
    LET r == json([d EXCEPT !.ent[i].caught = e, !.res.status = 500],
                  [error |-> "Internal Server Error"])
    IN  IF argsOf(d, i).res = "undefined"
        THEN fail([d EXCEPT !.ent[i].caught = e], i, TypeError)
        ELSE IF r.threw # NoError THEN fail(r.d, i, r.threw)
        ELSE [r.d EXCEPT !.ent[i].st = "run", !.stack = <<i>>]

\* The suspended user function of entry i continues after its await: the
\* awaited promise's rejection is thrown into it.
resume(d, i) ==
    LET w == d.ent[i].wait
        err == IF d.ent[i].thrown # NoError THEN d.ent[i].thrown
               ELSE IF w # 0 THEN d.ent[w].nextp.e ELSE NoError
        h == handlerOf(d, i)
        guarded == d.ent[i].pc > 1 /\ h.script[d.ent[i].pc - 1] = "canext"
    IN  IF err # NoError /\ guarded THEN catch(d, i, err)
        ELSE IF err # NoError THEN fail(d, i, err)
        ELSE [d EXCEPT !.ent[i].st = "run", !.stack = <<i>>]

\* next() continues after `await fn(ctx)` for entry i: it returns, or its catch
\* block calls errorHandler.
afterFn(d, i) ==
    LET r == errorHandler(d, d.ent[i].adapted.e)
        p == IF d.ent[i].adapted.s = "ok" THEN Resolved
             ELSE IF r.threw = NoError THEN Resolved ELSE Rejected(r.threw)
        d1 == IF d.ent[i].adapted.s = "ok" THEN d ELSE r.d
    IN  [d1 EXCEPT !.ent[i].nextp = p,
                   !.unhandled = @ \/ (p.s = "err" /\ ~d.ent[i].watched)]


(***************************************************************************)
(* handle / fetch                                                          *)
(***************************************************************************)
\* The statuses of a Response that has no body.
NullBodyStatus == {101, 103, 204, 205, 304}

\* The promise of fetch rejects with e.
Rejection(e) == [rejected |-> e]

\* new Response(body, {status}): a status outside 200..599 is a RangeError, a
\* body that is not null with a null-body status a TypeError.
Response(body, status) ==
    IF status < 200 \/ status > 599 THEN Rejection(PlainError("RangeError"))
    ELSE IF status \in NullBodyStatus /\ body # NoBody THEN Rejection(TypeError)
    ELSE [status |-> status, body |-> body]

\* fetch returns new Response(responseBody, {status: statusCode}); handle
\* returns nothing.
respond(d) ==
    IF transport = "fetch"
    THEN [d EXCEPT !.client = Response(d.res.body, d.res.status)]
    ELSE d

\* The chain of a request: the global middleware, adapted, then the handlers
\* found for the route, adapted.
buildChain(mws, hs) ==
    [i \in 1..Len(mws) |-> adaptRequestHandler(mws[i])]
        \o [i \in 1..Len(hs) |-> adaptRequestHandler(hs[i])]

\* rawReq.path.startsWith(prefix)
startsWith(path, prefix) ==
    /\ Len(prefix) <= Len(path)
    /\ SubSeq(path, 1, Len(prefix)) = prefix

\* Mutant: the last registered proxy whose path matches.
proxyFor_Last(path) ==
    LET M == { k \in DOMAIN proxies : startsWith(path, proxies[k].path) }
    IN  IF transport # "node" \/ M = {} THEN 0
        ELSE CHOOSE k \in M : \A j \in M : j <= k

\* `for (const proxy of this.proxies) if (rawReq.path.startsWith(proxy.path))`:
\* the position of the first registered proxy whose path the request path
\* starts with, 0 when there is none. Only handle has this loop.
proxyFor(path) ==
    LET M == { k \in DOMAIN proxies : startsWith(path, proxies[k].path) }
    IN  IF transport # "node" \/ M = {} THEN 0
        ELSE CHOOSE k \in M : \A j \in M : k <= j

\* middlewareError: set where middlewareNext calls errorHandler, which no
\* other code of the proxy branch has called when it is read.
middlewareError(d) == d.handled # <<>>

\* rawReq as handle / fetch have it before the try block: params is {}.
rawReqOn(method, path) ==
    [method |-> method, path |-> path, params |-> NoParams, user |-> FALSE]

\* handle / fetch await before the try block: fetch awaits initPromise, and
\* both await the body of a POST, PUT or PATCH request.
suspends(method) ==
    transport = "fetch" \/ toUpperCase(method) \in {"POST", "PUT", "PATCH"}

\* The proxy branch of handle up to `await middlewareNext()`: the chain is the
\* global middleware alone; Router.find is not called.
proxyDispatch(d, method, path, k) ==
    LET ch == buildChain(middlewares, <<>>)
        d1 == [d EXCEPT !.req = rawReqOn(method, path),
                        !.chain = ch,
                        !.ent = [i \in 1..Len(ch) |-> EntryIdle],
                        !.proxying = [NoProxy EXCEPT !.at = k]]
        n == next(d1, NoError, 0)
    IN  IF n.p.of # 0 THEN [n.d EXCEPT !.ent[n.p.of].watched = TRUE]
        ELSE n.d

\* Mutant: a failing find starts the global middleware.
dispatch_MiddlewareFirst(d, method, path) ==
    LET f == find(method, path)
        ch == buildChain(middlewares, f.handlers)
        d1 == [d EXCEPT !.req = [method |-> method, path |-> path,
                                 params |-> f.params, user |-> FALSE],
                        !.chain = ch,
                        !.ent = [i \in 1..Len(ch) |-> EntryIdle]]
        n == next(d1, NoError, 0)
        e == errorHandler(n.d, f.error)
    IN  IF proxyFor(path) # 0 THEN proxyDispatch(d, method, path, proxyFor(path))
        ELSE IF ~f.ok THEN respond([e.d EXCEPT !.req = rawReqOn(method, path)])
        ELSE IF n.p.of # 0 THEN [n.d EXCEPT !.ent[n.p.of].watched = TRUE]
        ELSE n.d

\* The try block of handle / fetch after find, for its result f and the global
\* middleware mws: the chain and the first next(), up to the first await. A
\* failing find goes to the catch block and the function ends.
tryBlock(d, method, path, mws, f) ==
    LET ch == buildChain(mws, f.handlers)
        d0 == [d EXCEPT !.req = rawReqOn(method, path)]
        d1 == [d0 EXCEPT !.req.params = f.params,
                         !.chain = ch,
                         !.ent = [i \in 1..Len(ch) |-> EntryIdle]]
        n == next(d1, NoError, 0)
    IN  IF ~f.ok THEN respond(errorHandler(d0, f.error).d)
        ELSE IF n.p.of # 0 THEN [n.d EXCEPT !.ent[n.p.of].watched = TRUE]
        ELSE n.d

\* The try block of handle / fetch up to the first await: the proxy loop of
\* handle, then find, the chain, the first next().
dispatch(d, method, path) ==
    IF proxyFor(path) # 0 THEN proxyDispatch(d, method, path, proxyFor(path))
    ELSE tryBlock(d, method, path, middlewares, find(method, path))

\* new URL(target), no base given, throws for a target that has no scheme.
parsesAsURL(target) == target # <<>> /\ target[1] \in {"http:", "https:"}

\* The answer of the proxy handler when it fails: `if (!res.headersSent)`,
\* statusCode, the Content-Type header, end(JSON.stringify(...)).
proxyAnswer(d, status, error, message) ==
    IF d.res.headersSent THEN d
    ELSE json([d EXCEPT !.res.status = status],
              [error |-> error, message |-> message]).d

\* proxy.handler(rawReq, rawRes, middlewareNext): a target that does not parse
\* is answered 500 by the catch block; otherwise the request is sent to the
\* target and the handler returns.
proxyHandler(d) ==
    LET d1 == [d EXCEPT !.proxying.invoked = Append(@, d.proxying.at)]
    IN  IF parsesAsURL(proxies[d.proxying.at].target)
        THEN [d1 EXCEPT !.proxying.upstream = "pending"]
        ELSE proxyAnswer(d1, 500, "Internal Server Error", "Failed to setup proxy")

\* What comes from the target, one event at a time: its response (the status,
\* whether it has headers and how its body is delimited: without headers the
\* body lasts until the connection closes), a chunk of the body, the end of the
\* body, an 'error', or a 'timeout' of the idle socket.
UpstreamEvents ==
    { [kind |-> "response", status |-> 200, headers |-> TRUE,
       framing |-> "length"],
      [kind |-> "response", status |-> 200, headers |-> TRUE,
       framing |-> "close"],
      [kind |-> "response", status |-> 404, headers |-> FALSE,
       framing |-> "close"],
      [kind |-> "data", status |-> 0, headers |-> FALSE, framing |-> "none"],
      [kind |-> "end", status |-> 0, headers |-> FALSE, framing |-> "none"],
      [kind |-> "error", status |-> 0, headers |-> FALSE, framing |-> "none"],
      [kind |-> "timeout", status |-> 0, headers |-> FALSE,
       framing |-> "none"] }

\* The events the request to the target can emit in state `phase`.
emits(phase, kind) ==
    CASE phase = "pending" -> kind \in {"response", "error", "timeout"}
      [] phase = "piping" -> kind \in {"data", "end", "error", "timeout"}
      [] phase = "flowing" -> kind \in {"end", "error", "timeout"}
      [] OTHER -> FALSE

\* One callback of the request to the target, each in a turn of the event loop
\* of its own. The response callback copies statusCode, calls setHeader for
\* every header, which throws from the callback once the headers have been
\* sent, pipes the body into rawRes and returns. The pipe, while it is
\* attached, writes a chunk with rawRes.write; on a response that had ended
\* before the pipe was attached the write fails, no 'drain' follows and the
\* pipe stays paused. At the end of the body the pipe, if it is still
\* attached, calls rawRes.end(). 'error' answers 502 and 'timeout' 504, unless
\* the headers have been sent. After 'timeout' the request is destroyed and
\* nothing more comes from the target. After 'error' a body delimited by the
\* close of the connection is complete: the target's response ends and the
\* pipe, if it is still attached, calls rawRes.end().
upstream(d, e) ==
    LET d0 == turn(d)
        over == [d0 EXCEPT !.proxying.upstream = "done"]
        failed == proxyAnswer(over, 502, "Bad Gateway",
                              "Failed to connect to upstream server")
    IN  CASE e.kind = "response" ->
                IF e.headers /\ d0.res.headersSent
                THEN [over EXCEPT !.res.status = e.status, !.res.uncaught = TRUE]
                ELSE [d0 EXCEPT !.res.status = e.status,
                                !.proxying.upstream = "piping",
                                !.proxying.framing = e.framing,
                                !.proxying.piped = TRUE]
          [] e.kind = "data" ->
                IF ~d0.proxying.piped THEN over
                ELSE write(IF d0.res.ended THEN over
                           ELSE [d0 EXCEPT !.proxying.upstream = "flowing"],
                           Text(<<"upstream">>))
          [] e.kind = "end" ->
                IF d0.proxying.piped THEN end(over, NoBody).d ELSE over
          [] e.kind = "error" ->
                IF failed.proxying.piped /\ failed.proxying.framing = "close"
                THEN end(failed, NoBody).d
                ELSE failed
          [] e.kind = "timeout" ->
                proxyAnswer(over, 504, "Gateway Timeout",
                            "Upstream server took too long to respond")

\* Mutant: the proxy handler is called whatever the middleware did.
afterNext_AlwaysProxy(d) ==
    LET p == IF d.started = <<>> THEN Resolved ELSE d.ent[d.started[1]].nextp
        r == errorHandler(d, p.e)
    IN  IF p.s = "err"
        THEN respond([r.d EXCEPT !.unhandled = @ \/ r.threw # NoError])
        ELSE IF d.proxying.at # 0
        THEN proxyHandler(d)
        ELSE respond(d)

\* handle / fetch continue after `await next()`: a rejection goes to the catch
\* block; then the function ends. In the proxy branch of handle the proxy
\* handler is called first, unless middlewareError is set.
afterNext(d) ==
    LET p == IF d.started = <<>> THEN Resolved ELSE d.ent[d.started[1]].nextp
        r == errorHandler(d, p.e)
    IN  IF p.s = "err"
        THEN respond([r.d EXCEPT !.unhandled = @ \/ r.threw # NoError])
        ELSE IF d.proxying.at # 0 /\ ~middlewareError(d)
        THEN proxyHandler(d)
        ELSE respond(d)

\* The chain entries of d whose work is in flight, whose await can resume, and
\* whose adapter has settled while its next() awaits it.
working(d) == {i \in DOMAIN d.ent : d.ent[i].st = "work"}

resumable(d) ==
    {i \in DOMAIN d.ent :
        /\ d.ent[i].st = "await"
        /\ d.ent[i].wait # 0 => d.ent[d.ent[i].wait].nextp.s # "pending"}

settled(d) ==
    {i \in DOMAIN d.ent : d.ent[i].adapted.s # "pending" /\ d.ent[i].nextp.s = "pending"}

\* `await next()` of handle / fetch, at position t, can continue.
returns(d, t) ==
    /\ t = "waiting"
    /\ d.started # <<>> => d.ent[d.started[1]].nextp.s # "pending"

\* No promise reaction of the request is queued: the turn of the event loop
\* can end.
drained(d, t) == resumable(d) = {} /\ settled(d) = {} /\ ~returns(d, t)

\* The work awaited by entry i completes.
workDone(d, i) == [d EXCEPT !.ent[i].st = "run", !.stack = <<i>>]

\* The dispatch state held in the variables, and its update.
D ==
    [req |-> req, chain |-> chain, idx |-> idx, ent |-> ent, stack |-> stack,
     started |-> started, res |-> res, client |-> client, handled |-> handled,
     unhandled |-> unhandled, proxying |-> proxying]

Commit(d) ==
    /\ req' = d.req
    /\ chain' = d.chain
    /\ idx' = d.idx
    /\ ent' = d.ent
    /\ stack' = d.stack
    /\ started' = d.started
    /\ res' = d.res
    /\ client' = d.client
    /\ handled' = d.handled
    /\ unhandled' = d.unhandled
    /\ proxying' = d.proxying

(***************************************************************************)
(* The router alone: registrations and lookups.                            *)
(***************************************************************************)
\* Route paths registered in the router specification.
RoutePaths ==
    { <<"/", "a">>,                         \* /a
      <<"/", "a", "/", "b">>,               \* /a/b
      <<"/", "a", "/", ":", "a">>,          \* /a/:a
      <<"/", ":", "a">>,                    \* /:a
      <<"/", ":", "a", "/", ":", "b">>,     \* /:a/:b
      <<"/", ":", "b", "/", "b">>,          \* /:b/b
      <<"a", "/", "/", "b", "/">>,          \* a//b/
      <<"/">> }

\* The registrations of the router specification: GET on every route path, and
\* a lower-case post on /a. Every registration passes its own handler function:
\* the n-th add call registers the chain <<n>>.
Routes ==
    {[method |-> "GET", path |-> p] : p \in RoutePaths}
        \cup {[method |-> "post", path |-> <<"/", "a">>]}

RequestPaths == StringsUpTo(MaxPathLen)

NoFind == [called |-> FALSE]

\* A second Router, new and not mounted.
NoSub == [calls |-> <<>>, mounted |-> FALSE, prefix |-> <<>>, at |-> 0, before |-> 0,
          upto |-> 0, middlewares |-> <<>>]

\* A new Router.
EmptyTrie ==
    /\ children = {root}
    /\ paramName = NoParams
    /\ handlers = [k \in {} |-> <<>>]
    /\ nAdds = 0
    /\ added = <<>>
    /\ subRouter = NoSub
    /\ found = NoFind

\* The add calls of setupDefaultRoutes: GET /favicon.ico with a handler that
\* is passed adapted.
setupDefaultRoutes ==
    << [method |-> "GET", path |-> pFavicon,
        handlers |-> <<adaptRequestHandler(raw("favicon"))>>] >>

\* The router of a new AzuraClient: new Router(), then setupDefaultRoutes().
ClientRouter ==
    LET t == routerOf(setupDefaultRoutes)
    IN  /\ children = t.children
        /\ paramName = t.paramName
        /\ handlers = t.handlers
        /\ nAdds = Len(setupDefaultRoutes)
        /\ added = [i \in DOMAIN setupDefaultRoutes |->
                       [method |-> setupDefaultRoutes[i].method,
                        path |-> setupDefaultRoutes[i].path]]
        /\ subRouter = NoSub
        /\ found = NoFind

\* The routes registered through the client, the default ones apart.
nRoutes == nAdds - Len(setupDefaultRoutes)

\* A new AzuraClient that has received no request.
NoRequestYet ==
    /\ middlewares = <<>>
    /\ proxies = <<>>
    /\ top = "setup"
    /\ req = DispatchIdle.req
    /\ chain = DispatchIdle.chain
    /\ idx = DispatchIdle.idx
    /\ ent = DispatchIdle.ent
    /\ stack = DispatchIdle.stack
    /\ started = DispatchIdle.started
    /\ res = DispatchIdle.res
    /\ client = DispatchIdle.client
    /\ handled = DispatchIdle.handled
    /\ unhandled = DispatchIdle.unhandled
    /\ proxying = DispatchIdle.proxying
    /\ otherRequest = NoOther

NoDispatch ==
    /\ resolved = NoResolve
    /\ NoRequestYet

RouterInit ==
    /\ EmptyTrie
    /\ adapter = "v2"
    /\ transport = "node"
    /\ NoDispatch

RouterAdd ==
    /\ nAdds < MaxAdds
    /\ found = NoFind
    /\ \E r \in Routes : Add(r.method, r.path, <<nAdds + 1>>)
    /\ nAdds' = nAdds + 1
    /\ found' = NoFind
    /\ UNCHANGED dvars

RouterFind ==
    /\ found = NoFind
    /\ \E m \in {"GET", "get", "POST"}, p \in RequestPaths :
          found' = [called |-> TRUE, method |-> m, path |-> p, result |-> find(m, p)]
    /\ UNCHANGED <<children, paramName, handlers, nAdds, added, subRouter>>
    /\ UNCHANGED dvars

RouterNext == RouterAdd \/ RouterFind

SpecRouter == RouterInit /\ [][RouterNext]_vars

(***************************************************************************)
(* The router under repeated registration: routes that name the same node  *)
(* in different spellings, and routes that name the same parameter         *)
(* position differently.  One more add call than in the specification      *)
(* above, over fewer routes and requests.                                  *)
(***************************************************************************)
pAB == <<"/", "a", "/", "b">>                          \* /a/b
pABslashes == <<"a", "/", "/", "b", "/">>              \* a//b/
pAxB == <<"/", "a", "/", ":", "x", "/", "b">>          \* /a/:x/b
pAyC == <<"/", "a", "/", ":", "y", "/", "c">>          \* /a/:y/c

RegisterRoutes ==
    { [method |-> "GET", path |-> pAB],
      [method |-> "get", path |-> pABslashes],
      [method |-> "post", path |-> pAB],
      [method |-> "GET", path |-> pAxB],
      [method |-> "GET", path |-> pAyC] }

RegisterRequests ==
    { pAB, pABslashes, pAxB, pAyC,
      <<"a", "/", "b">>,                               \* a/b
      <<"/", "a", "/", "/", "b", "/">>,                \* /a//b/
      <<"/", "a", "/", "b", "?", "x", "=", "1">>,      \* /a/b?x=1
      <<"/", "a", "/", "1", "/", "c">>,                \* /a/1/c
      <<"/", "a", "/", "1", "/", "b">>,                \* /a/1/b
      <<"/", "a", "?", "/", "b">> }                    \* /a?/b
        \cup StringsUpTo(MaxPathLen)

RegisterMethods == {"GET", "get", "POST"}

RegisterAdd ==
    /\ nAdds < MaxAdds + 1
    /\ found = NoFind
    /\ \E r \in RegisterRoutes : Add(r.method, r.path, <<nAdds + 1>>)
    /\ nAdds' = nAdds + 1
    /\ found' = NoFind
    /\ UNCHANGED dvars

RegisterFind ==
    /\ found = NoFind
    /\ \E m \in RegisterMethods, p \in RegisterRequests :
          found' = [called |-> TRUE, method |-> m, path |-> p, result |-> find(m, p)]
    /\ UNCHANGED <<children, paramName, handlers, nAdds, added, subRouter>>
    /\ UNCHANGED dvars

RegisterNext == RegisterAdd \/ RegisterFind

SpecRegister == RouterInit /\ [][RegisterNext]_vars

(***************************************************************************)
(* Mounting: a second Router receives routes, is mounted on this one under *)
(* a prefix by use(prefix, router), and may receive more routes later.     *)
(***************************************************************************)
MountPrefixes ==
    { <<"/", "a">>,                                    \* /a
      <<"/", "a", "/">>,                               \* /a/
      <<"/">>,                                         \* /
      <<"/", ":", "y">> }                              \* /:y

SubRoutes ==
    { [method |-> "GET", path |-> <<"/">>],
      [method |-> "GET", path |-> <<"/", "b">>],
      [method |-> "post", path |-> <<"/", "b">>],
      [method |-> "GET", path |-> <<"/", ":", "x">>],
      [method |-> "GET", path |-> <<"/", ":", "x", "/", "b">>] }

ParentRoutes ==
    { [method |-> "GET", path |-> <<"/", "a">>],
      [method |-> "GET", path |-> <<"/", "a", "/", ":", "y">>] }

\* The requests made once the second router is mounted: the paths of its
\* routes under the prefix, and two paths with a value for a parameter.
MountRequests ==
    {fullPath(mountPrefix(subRouter.prefix), r.path) : r \in SubRoutes}
        \cup { <<"/", "a", "/", "1">>, <<"/", "a", "/", "1", "/", "b">> }

\* The handlers of the k-th add call on the second router: two functions.
subChain(k) == <<10 + k, 20 + k>>

\* This router as a value. The insertion order of its Maps is not part of the
\* state: listRoutes is called on the router passed to use only.
thisRouter ==
    [children |-> children, paramName |-> paramName, handlers |-> handlers,
     nodes |-> <<>>, keys |-> <<>>, middlewares |-> <<>>]

\* The second router as a value: its add calls and its use(mw) calls.
RECURSIVE usedBy(_, _)
usedBy(t, mws) ==
    IF mws = <<>> THEN t
    ELSE useMiddleware(usedBy(t, SubSeq(mws, 1, Len(mws) - 1)), mws[Len(mws)])

secondRouter(s) == usedBy(routerOf(s.calls), s.middlewares)

\* add on this router.
ParentAdd ==
    /\ nAdds - (subRouter.upto - subRouter.before) < MaxAdds
    /\ found = NoFind
    /\ \E r \in ParentRoutes : Add(r.method, r.path, <<nAdds + 1>>)
    /\ nAdds' = nAdds + 1
    /\ found' = NoFind
    /\ UNCHANGED dvars

\* add on the second router.
SubAdd ==
    /\ Len(subRouter.calls) < MaxAdds
    /\ found = NoFind
    /\ \E r \in SubRoutes :
          subRouter' = [subRouter EXCEPT !.calls =
                           Append(@, [method |-> r.method, path |-> r.path,
                                      handlers |-> subChain(Len(@) + 1)])]
    /\ UNCHANGED <<children, paramName, handlers, nAdds, added, found>>
    /\ UNCHANGED dvars

\* use(prefix, router) on this router.
MountUse ==
    /\ ~subRouter.mounted
    /\ found = NoFind
    /\ \E p \in MountPrefixes :
          LET u == use(thisRouter, p, secondRouter(subRouter))
          IN  /\ children' = u.router.children
              /\ paramName' = u.router.paramName
              /\ handlers' = u.router.handlers
              /\ added' = added \o u.calls
              /\ nAdds' = nAdds + Len(u.calls)
              /\ subRouter' = [subRouter EXCEPT !.mounted = TRUE, !.prefix = p,
                                               !.at = Len(subRouter.calls),
                                               !.before = Len(added),
                                               !.upto = Len(added) + Len(u.calls)]
    /\ found' = NoFind
    /\ UNCHANGED dvars

\* find on this router.
MountFind ==
    /\ subRouter.mounted
    /\ found = NoFind
    /\ \E m \in {"GET", "POST"}, p \in MountRequests :
          found' = [called |-> TRUE, method |-> m, path |-> p, result |-> find(m, p)]
    /\ UNCHANGED <<children, paramName, handlers, nAdds, added, subRouter>>
    /\ UNCHANGED dvars

MountNext == ParentAdd \/ SubAdd \/ MountUse \/ MountFind

SpecMount == RouterInit /\ [][MountNext]_vars

(***************************************************************************)
(* Router.use(mw) on the second router, before or after it is mounted.     *)
(***************************************************************************)
\* The k-th middleware function given to the second router.
subMiddleware(k) == 90 + k

\* use(mw) on the second router.
SubUse ==
    /\ Len(subRouter.middlewares) < MaxMiddlewares
    /\ found = NoFind
    /\ subRouter' = [subRouter EXCEPT !.middlewares =
                        useMiddleware(secondRouter(subRouter),
                                      subMiddleware(Len(@) + 1)).middlewares]
    /\ UNCHANGED <<children, paramName, handlers, nAdds, added, found>>
    /\ UNCHANGED dvars

RouterUseNext == SubAdd \/ SubUse \/ MountUse \/ MountFind

SpecRouterUse == RouterInit /\ [][RouterUseNext]_vars

(***************************************************************************)
(* The trie across add and find calls: the routes of the specification     *)
(* above, with the few requests that reach them.                           *)
(***************************************************************************)
FrameRequests ==
    { pAB, <<"/">>,
      <<"/", "a", "/", "1", "/", "b">>,                \* /a/1/b
      <<"/", "a", "/", "1", "/", "c">>,                \* /a/1/c
      <<"/", "a", "/", "b", "?", "x", "=", "1">> }     \* /a/b?x=1

FrameFind ==
    /\ found = NoFind
    /\ \E m \in RegisterMethods, p \in FrameRequests :
          found' = [called |-> TRUE, method |-> m, path |-> p, result |-> find(m, p)]
    /\ UNCHANGED <<children, paramName, handlers, nAdds, added, subRouter>>
    /\ UNCHANGED dvars

FrameNext == RegisterAdd \/ FrameFind

SpecFrame == RouterInit /\ [][FrameNext]_vars

(***************************************************************************)
(* Routes that overlap in a literal and a parameter child of the same      *)
(* node, and requests that only the parameter child could serve.           *)
(***************************************************************************)
pABC == <<"/", "a", "/", "b", "/", "c">>                               \* /a/b/c
pAxD == <<"/", "a", "/", ":", "x", "/", "d">>                          \* /a/:x/d
pAx == <<"/", "a", "/", ":", "x">>                                     \* /a/:x
pItemsSpecial ==
    <<"/", "i", "t", "e", "m", "s", "/", "s", "p", "e", "c", "i", "a", "l">>
pItemsId == <<"/", "i", "t", "e", "m", "s", "/", ":", "i", "d">>       \* /items/:id

GreedyRoutes ==
    { [method |-> "GET", path |-> pABC],
      [method |-> "GET", path |-> pAxD],
      [method |-> "GET", path |-> pAx],
      [method |-> "POST", path |-> pItemsSpecial],
      [method |-> "GET", path |-> pItemsId] }

GreedyRequests ==
    { pABC, pItemsSpecial,
      <<"/", "a", "/", "b", "/", "d">>,                                \* /a/b/d
      <<"/", "a", "/", "b">>,                                          \* /a/b
      <<"/", "a", "/", "1", "/", "d">>,                                \* /a/1/d
      <<"/", "a", "/", "1">>,                                          \* /a/1
      <<"/", "i", "t", "e", "m", "s", "/", "7">> }                     \* /items/7

GreedyAdd ==
    /\ nAdds < MaxAdds + 1
    /\ found = NoFind
    /\ \E r \in GreedyRoutes : Add(r.method, r.path, <<nAdds + 1>>)
    /\ nAdds' = nAdds + 1
    /\ found' = NoFind
    /\ UNCHANGED dvars

GreedyFind ==
    /\ found = NoFind
    /\ \E m \in {"GET", "POST"}, p \in GreedyRequests :
          found' = [called |-> TRUE, method |-> m, path |-> p, result |-> find(m, p)]
    /\ UNCHANGED <<children, paramName, handlers, nAdds, added, subRouter>>
    /\ UNCHANGED dvars

GreedyNext == GreedyAdd \/ GreedyFind

SpecGreedy == RouterInit /\ [][GreedyNext]_vars

(***************************************************************************)
(* The server: registrations, then one request through handle or fetch.    *)
(***************************************************************************)
\* Nothing of the request is running or can continue: no user function is
\* executing or has work in flight, no await can resume, no settled adapter
\* awaits its next(), handle / fetch has returned or waits for ever, and no
\* request to a proxy target is in flight.
Quiet ==
    /\ top \notin {"setup", "arrived"}
    /\ stack = <<>>
    /\ \A i \in DOMAIN ent :
          /\ ent[i].st # "work"
          /\ ent[i].st = "await" =>
                (ent[i].wait # 0 /\ ent[ent[i].wait].nextp.s = "pending")
          /\ ~(ent[i].adapted.s # "pending" /\ ent[i].nextp.s = "pending")
    /\ top = "waiting" => (started # <<>> /\ ent[started[1]].nextp.s = "pending")
    /\ proxying.upstream \in {"none", "done"}

Init ==
    /\ ClientRouter
    /\ adapter \in {"v1", "v2"}
    /\ transport \in {"node", "fetch"}
    /\ NoDispatch

\* use, addRoute and proxy are called before a request arrives or while handle
\* / fetch await before their try block.
Registering == top \in {"setup", "arrived"}

\* app.use(mw)
Use ==
    /\ Registering
    /\ Len(middlewares) < MaxMiddlewares
    /\ \E m \in Middleware : middlewares' = Append(middlewares, raw(m))
    /\ UNCHANGED <<children, paramName, handlers, nAdds, added, subRouter, otherRequest, found,
                   adapter, resolved, proxies, transport,
                   top, req, chain, idx, ent, stack, started, res, client, handled,
                   unhandled, proxying>>

\* app.addRoute(method, path, ...handlers)
AddRoute ==
    /\ Registering
    /\ nRoutes < MaxRoutes
    /\ \E r \in RouteDefs :
          Add(r.method, r.path,
              [i \in 1..Len(r.fns) |-> adaptRequestHandler(raw(r.fns[i]))])
    /\ nAdds' = nAdds + 1
    /\ UNCHANGED <<found, adapter, resolved, proxies, transport, middlewares, otherRequest>>
    /\ UNCHANGED <<top, req, chain, idx, ent, stack, started, res, client, handled,
                   unhandled, proxying>>

\* handle / fetch suspend before the try block, d being their locals.
Suspend(d, method, path) ==
    /\ top' = "arrived"
    /\ found' = NoFind
    /\ Commit([d EXCEPT !.req = rawReqOn(method, path)])

\* handle / fetch run their try block up to the first await, d being their
\* locals.
Try(d, method, path) ==
    /\ found' = IF proxyFor(path) # 0 THEN found
                 ELSE [called |-> TRUE, method |-> method, path |-> path,
                       result |-> find(method, path)]
    /\ top' = IF proxyFor(path) # 0 \/ find(method, path).ok
              THEN "waiting" ELSE "done"
    /\ Commit(unwind(dispatch(d, method, path)))

\* A request, one of `reqs`, arrives: handle / fetch run up to their first
\* await.
RequestFrom(reqs) ==
    /\ top = "setup"
    /\ \E r \in reqs :
          IF suspends(r.method) THEN Suspend(D, r.method, r.path)
          ELSE Try(D, r.method, r.path)
    /\ UNCHANGED <<children, paramName, handlers, nAdds, added, subRouter, otherRequest, adapter, resolved,
                   proxies, transport, middlewares>>

Request == RequestFrom(Requests)

RequestAny == RequestFrom(AnyRequests)

\* handle / fetch continue after the awaits before their try block.
Dispatch ==
    /\ top = "arrived"
    /\ Try(D, req.method, req.path)
    /\ UNCHANGED <<children, paramName, handlers, nAdds, added, subRouter, otherRequest, adapter, resolved,
                   proxies, transport, middlewares>>

\* The running user function executes its next operation.
Step ==
    /\ stack # <<>>
    /\ LET i == stack[Len(stack)]
       IN  \E e \in raisable(D, i) : Commit(unwind(userStep(D, i, e)))
    /\ UNCHANGED <<children, paramName, handlers, nAdds, added, subRouter, otherRequest, found,
                   adapter, resolved, proxies, transport,
                   middlewares, top>>

\* The other request of the server, after a turn of the event loop.
turnOther(o) == IF o.run THEN [o EXCEPT !.d = turn(@)] ELSE o

\* The asynchronous work a user function awaits completes: within the turn of
\* the event loop, or (timed) in a later turn, which begins when no promise
\* reaction is queued.
WorkDone ==
    /\ stack = <<>>
    /\ \E i \in working(D), timed \in BOOLEAN :
          /\ timed => /\ drained(D, top)
                       /\ otherRequest.run => drained(otherRequest.d, otherRequest.top)
          /\ Commit(workDone(IF timed THEN turn(D) ELSE D, i))
          /\ otherRequest' = IF timed THEN turnOther(otherRequest) ELSE otherRequest
    /\ UNCHANGED <<children, paramName, handlers, nAdds, added, subRouter, found,
                   adapter, resolved, proxies, transport,
                   middlewares, top>>

\* The promise a user function awaits has settled.
Resume ==
    /\ stack = <<>>
    /\ \E i \in DOMAIN ent :
          /\ ent[i].st = "await"
          /\ ent[i].wait # 0 => ent[ent[i].wait].nextp.s # "pending"
          /\ Commit(unwind(resume(D, i)))
    /\ UNCHANGED <<children, paramName, handlers, nAdds, added, subRouter, otherRequest, found,
                   adapter, resolved, proxies, transport,
                   middlewares, top>>

\* The promise of an adapted handler has settled.
Settle ==
    /\ stack = <<>>
    /\ \E i \in DOMAIN ent :
          /\ ent[i].adapted.s # "pending"
          /\ ent[i].nextp.s = "pending"
          /\ Commit(afterFn(D, i))
    /\ UNCHANGED <<children, paramName, handlers, nAdds, added, subRouter, otherRequest, found,
                   adapter, resolved, proxies, transport,
                   middlewares, top>>

\* The promise of the first next() has settled.
Return ==
    /\ stack = <<>>
    /\ top = "waiting"
    /\ started # <<>> => ent[started[1]].nextp.s # "pending"
    /\ top' = "done"
    /\ Commit(afterNext(D))
    /\ UNCHANGED <<children, paramName, handlers, nAdds, added, subRouter, otherRequest, found,
                   adapter, resolved, proxies, transport,
                   middlewares>>

Next == Use \/ AddRoute \/ Request \/ Dispatch \/ Step \/ WorkDone \/ Resume \/ Settle \/ Return

Spec == Init /\ [][Next]_vars

(***************************************************************************)
(* adaptRequestHandler alone: one user function is adapted once and the    *)
(* adapted function is called with a context {request, response, next}     *)
(* whose next is the continuation of a chain with nothing after it.        *)
(***************************************************************************)
\* The user functions adapted.
AdapterHandlers ==
    {"cbPass", "cbErr", "cbRetErr", "cbThrow", "cbTwice", "cbErrTwice", "cbNextThrow",
     "cbAsyncErr", "cbAsyncThrow", "cbAsyncNextThrow", "cbEnd",
     "dsPass", "dsErr", "dsThrow", "hSync", "hAsync",
     "hPair", "pairThrow", "hBare", "barePass", "bareThrow"}

\* await adaptRequestHandler(mw)(ctx), up to the await.
Adapt ==
    /\ top = "setup"
    /\ \E m \in AdapterHandlers :
          LET d1 == [D EXCEPT !.chain = <<adaptRequestHandler(raw(m))>>,
                              !.ent = <<EntryIdle>>]
              n == next(d1, NoError, 0)
          IN  Commit(unwind([n.d EXCEPT !.ent[1].watched = TRUE]))
    /\ top' = "waiting"
    /\ UNCHANGED <<children, paramName, handlers, nAdds, added, subRouter, otherRequest, found,
                   adapter, resolved, proxies, transport,
                   middlewares>>

AdapterNext == Adapt \/ Step \/ WorkDone \/ Resume \/ Settle \/ Return

SpecAdapter == Init /\ [][AdapterNext]_vars

(***************************************************************************)
(* adaptRequestHandler applied twice, as for a route handler: addRoute      *)
(* adapts it and the chain build adapts the adapted function again.        *)
(***************************************************************************)
\* await adaptRequestHandler(adaptRequestHandler(mw))(ctx), up to the await.
AdaptTwice ==
    /\ top = "setup"
    /\ \E m \in AdapterHandlers :
          LET d1 == [D EXCEPT !.chain = <<adaptRequestHandler(adaptRequestHandler(raw(m)))>>,
                              !.ent = <<EntryIdle>>]
              n == next(d1, NoError, 0)
          IN  Commit(unwind([n.d EXCEPT !.ent[1].watched = TRUE]))
    /\ top' = "waiting"
    /\ UNCHANGED <<children, paramName, handlers, nAdds, added, subRouter, otherRequest,
                   found, adapter, resolved, proxies, transport, middlewares>>

TwiceNext == AdaptTwice \/ Step \/ WorkDone \/ Resume \/ Settle \/ Return

SpecTwice == Init /\ [][TwiceNext]_vars

(***************************************************************************)
(* Routes whose chain has a two-parameter handler, (req, res) => ...,      *)
(* registered through get / addRoute, and one request.                     *)
(***************************************************************************)
PairRoutes ==
    { [method |-> "GET", path |-> <<"/", ":", "a">>, fns |-> <<"hPair">>],
      [method |-> "GET", path |-> <<"/", ":", "a">>, fns |-> <<"hPair", "hSync">>],
      [method |-> "GET", path |-> <<"/", ":", "a">>, fns |-> <<"dsPass", "hPair">>],
      [method |-> "GET", path |-> <<"/", "a">>, fns |-> <<"pairThrow">>] }

\* app.addRoute(method, path, ...handlers) for one of the routes `defs`.
AddRouteFrom(defs) ==
    /\ Registering
    /\ nRoutes < MaxRoutes
    /\ \E r \in defs :
          Add(r.method, r.path,
              [i \in 1..Len(r.fns) |-> adaptRequestHandler(raw(r.fns[i]))])
    /\ nAdds' = nAdds + 1
    /\ UNCHANGED <<found, adapter, resolved, proxies, transport, middlewares, otherRequest>>
    /\ UNCHANGED <<top, req, chain, idx, ent, stack, started, res, client, handled,
                   unhandled, proxying>>

\* app.use(mw) for one of the functions `mws`.
UseFrom(mws) ==
    /\ Registering
    /\ Len(middlewares) < MaxMiddlewares
    /\ \E m \in mws : middlewares' = Append(middlewares, raw(m))
    /\ UNCHANGED <<children, paramName, handlers, nAdds, added, subRouter, otherRequest, found,
                   adapter, resolved, proxies, transport,
                   top, req, chain, idx, ent, stack, started, res, client, handled,
                   unhandled, proxying>>

\* app.get(path, ...handlers)
AddPairRoute == AddRouteFrom(PairRoutes)

PairNext == AddPairRoute \/ RequestAny \/ Dispatch \/ Step \/ WorkDone \/ Resume \/ Settle \/ Return

SpecPair == Init /\ [][PairNext]_vars

(***************************************************************************)
(* Handlers that write the response and then go on: they write, send or    *)
(* redirect again, call next, pass an error to next or throw.              *)
(***************************************************************************)
OneShotMiddleware ==
    {"dsWriteNext", "dsWriteThrow", "dsWriteTwice", "dsSendTwice", "dsSendObjects",
     "dsWriteNerr", "cbWriteThrow", "dsRedirectSend", "dsWriteRedirect"}

OneShotRoutes == { [method |-> "GET", path |-> <<"/", "a">>, fns |-> <<"hBare">>] }

UseOneShot == UseFrom(OneShotMiddleware)

AddOneShotRoute == AddRouteFrom(OneShotRoutes)

OneShotNext ==
    UseOneShot \/ AddOneShotRoute \/ RequestAny \/ Dispatch \/ Step \/ WorkDone \/ Resume \/ Settle
        \/ Return

SpecOneShot == Init /\ [][OneShotNext]_vars

(***************************************************************************)
(* A middleware that wraps `await next()` in try / catch, in front of      *)
(* chain entries that throw.                                               *)
(***************************************************************************)
CatchMiddleware == {"dsCatch", "dsThrow", "dsSetThrow", "dsWriteThrow", "dsPass"}

CatchRoutes ==
    { [method |-> "GET", path |-> <<"/", "a">>, fns |-> <<"hSync">>],
      [method |-> "GET", path |-> <<"/", "a">>, fns |-> <<"dsThrow">>] }

UseCatch == UseFrom(CatchMiddleware)

AddCatchRoute == AddRouteFrom(CatchRoutes)

CatchNext ==
    UseCatch \/ AddCatchRoute \/ RequestAny \/ Dispatch \/ Step \/ WorkDone \/ Resume
        \/ Settle \/ Return

SpecCatch == Init /\ [][CatchNext]_vars

(***************************************************************************)
(* Chains whose last entry calls next(): there is nothing after it.        *)
(***************************************************************************)
ExhaustMiddleware == {"dsPass", "cbPass"}

ExhaustRoutes ==
    { [method |-> "GET", path |-> <<"/", "a">>, fns |-> <<"dsNext">>],
      [method |-> "GET", path |-> <<"/", "a">>, fns |-> <<"cbNext">>],
      [method |-> "GET", path |-> <<"/", "a">>, fns |-> <<"dsWriteNext">>],
      [method |-> "GET", path |-> <<"/", ":", "a">>, fns |-> <<"dsNext", "dsNext">>] }

UseExhaust == UseFrom(ExhaustMiddleware)

AddExhaustRoute == AddRouteFrom(ExhaustRoutes)

ExhaustNext ==
    UseExhaust \/ AddExhaustRoute \/ RequestAny \/ Dispatch \/ Step \/ WorkDone \/ Resume
        \/ Settle \/ Return

SpecExhaust == Init /\ [][ExhaustNext]_vars

(***************************************************************************)
(* Proxies: app.proxy(path, target) registrations, then one request.       *)
(***************************************************************************)
MaxProxies == 2

\* Targets: one that parses as a URL and one that does not.
tUp == <<"http:", "//", "up">>
tBad == <<"up">>

\* The proxy(path, target) calls made.
ProxyDefs ==
    { [path |-> <<"/", "a">>, target |-> tUp],
      [path |-> <<"/", "a", "b">>, target |-> tUp],
      [path |-> <<"/">>, target |-> tBad] }

ProxyMiddleware == {"dsNext", "dsErr", "hSync", "cbErr", "cbNextWrite"}

ProxyRoutes == { [method |-> "GET", path |-> <<"/", "a">>, fns |-> <<"hSync">>] }

ProxyRequests ==
    { [method |-> "GET", path |-> <<"/", "a">>],
      [method |-> "POST", path |-> <<"/", "a">>],
      [method |-> "GET", path |-> <<"/", "a", "b">>],
      [method |-> "GET", path |-> <<"/", "b">>] }

\* app.proxy(path, target): this.proxies.push({path, handler})
Proxy ==
    /\ Registering
    /\ Len(proxies) < MaxProxies
    /\ \E p \in ProxyDefs : proxies' = Append(proxies, p)
    /\ UNCHANGED <<children, paramName, handlers, nAdds, added, subRouter, otherRequest, found,
                   adapter, resolved, transport, middlewares,
                   top, req, chain, idx, ent, stack, started, res, client, handled,
                   unhandled, proxying>>

UseProxy == UseFrom(ProxyMiddleware)

AddProxyRoute == AddRouteFrom(ProxyRoutes)

ProxyRequest == RequestFrom(ProxyRequests)

\* An event of the request to the target of the proxy, handle having
\* returned: a callback in a later turn of the event loop, which begins when
\* no promise reaction is queued; the work of a middleware can be in flight.
Upstream ==
    /\ top = "done"
    /\ stack = <<>>
    /\ drained(D, top)
    /\ \E e \in UpstreamEvents :
          /\ emits(proxying.upstream, e.kind)
          /\ Commit(upstream(D, e))
    /\ UNCHANGED <<children, paramName, handlers, nAdds, added, subRouter, otherRequest, found,
                   adapter, resolved, proxies, transport,
                   middlewares, top>>

ProxyNext ==
    Proxy \/ UseProxy \/ AddProxyRoute \/ ProxyRequest \/ Dispatch \/ Step \/ WorkDone \/ Resume
        \/ Settle \/ Return \/ Upstream

SpecProxy == Init /\ [][ProxyNext]_vars

(***************************************************************************)
(* The same server behind both entry points: a request is served by handle *)
(* and, once nothing more of it can happen, the same request is served by  *)
(* fetch; otherRequest keeps the request as handle left it.                *)
(***************************************************************************)
TransportMiddleware == {"cbPass", "dsPass", "dsErr", "dsThrow", "dsWriteThrow"}

TransportRoutes ==
    { [method |-> "GET", path |-> <<"/", ":", "a">>, fns |-> <<"hSync">>],
      [method |-> "GET", path |-> <<"/", "a">>, fns |-> <<"hAsync">>],
      [method |-> "post", path |-> <<"/", "a">>, fns |-> <<"hSync">>] }

TransportsInit == Init /\ transport = "node"

UseTransport == UseFrom(TransportMiddleware)

AddTransportRoute == AddRouteFrom(TransportRoutes)

\* The request served by handle is over and the same request arrives at
\* fetch, which suspends at its first await; otherRequest keeps the request as
\* handle left it and the registrations it was served with.
ToFetch ==
    /\ transport = "node"
    /\ otherRequest = NoOther
    /\ Quiet
    /\ otherRequest' = [run |-> TRUE, top |-> top, d |-> turn(D), found |-> found,
                        middlewares |-> middlewares, nAdds |-> nAdds]
    /\ transport' = "fetch"
    /\ Suspend(DispatchIdle, req.method, req.path)
    /\ UNCHANGED <<children, paramName, handlers, nAdds, added, subRouter, adapter, resolved, proxies,
                   middlewares>>

TransportsNext ==
    UseTransport \/ AddTransportRoute \/ RequestAny \/ Dispatch \/ Step \/ WorkDone
        \/ Resume \/ Settle \/ Return \/ ToFetch

SpecTransports == TransportsInit /\ [][TransportsNext]_vars

(***************************************************************************)
(* Two requests in flight on the same server.  The variables of the        *)
(* request hold the one whose code runs; otherRequest holds the one that   *)
(* is suspended.  Control passes from one to the other only when the call  *)
(* stack is empty.                                                         *)
(***************************************************************************)
ConcurrentMiddleware == {"dsPass", "dsThrow", "dsErr"}

ConcurrentRoutes ==
    { [method |-> "GET", path |-> <<"/", ":", "a">>, fns |-> <<"hSync">>],
      [method |-> "GET", path |-> <<"/", "a">>, fns |-> <<"hAsync">>] }

ConcurrentRequests ==
    { [method |-> "GET", path |-> <<"/", "a">>],
      [method |-> "POST", path |-> <<"/", "a">>] }

UseConcurrent == UseFrom(ConcurrentMiddleware)

AddConcurrentRoute == AddRouteFrom(ConcurrentRoutes)

\* Mutant: the cursor is shared by the requests of a server.
newRequest_SharedCursor(d) == [DispatchIdle EXCEPT !.idx = d.idx]

\* The locals of handle / fetch for a request that arrives while d is in
\* flight: its own facades, chain and cursor (let idx = 0).
newRequest(d) == DispatchIdle

\* A second request arrives while the first is suspended or over, in a turn of
\* the event loop of its own: handle / fetch run up to their first await.
Arrive ==
    /\ top \in {"arrived", "waiting", "done"}
    /\ stack = <<>>
    /\ drained(D, top)
    /\ otherRequest = NoOther
    /\ otherRequest' = [run |-> TRUE, top |-> top, d |-> turn(D), found |-> found]
    /\ \E r \in ConcurrentRequests :
          IF suspends(r.method) THEN Suspend(newRequest(D), r.method, r.path)
          ELSE Try(newRequest(D), r.method, r.path)
    /\ UNCHANGED <<children, paramName, handlers, nAdds, added, subRouter, adapter, resolved, proxies, transport,
                   middlewares>>

\* The event loop turns to the other request.
Switch ==
    /\ stack = <<>>
    /\ otherRequest # NoOther
    /\ otherRequest' = [run |-> TRUE, top |-> top, d |-> D, found |-> found]
    /\ top' = otherRequest.top
    /\ found' = otherRequest.found
    /\ Commit(otherRequest.d)
    /\ UNCHANGED <<children, paramName, handlers, nAdds, added, subRouter, adapter, resolved, proxies, transport,
                   middlewares>>

ConcurrentRequest == RequestFrom(ConcurrentRequests)

ConcurrentNext ==
    UseConcurrent \/ AddConcurrentRoute \/ ConcurrentRequest \/ Dispatch \/ Arrive
        \/ Switch
        \/ Step
        \/ WorkDone \/ Resume \/ Settle \/ Return

SpecConcurrent == Init /\ [][ConcurrentNext]_vars

(***************************************************************************)
(* The error responder alone: one error reaches the catch block of handle  *)
(* or fetch before any handler has written.                                *)
(***************************************************************************)
ResponderInit ==
    /\ ClientRouter
    /\ adapter = "v2"
    /\ transport \in {"node", "fetch"}
    /\ NoDispatch

\* catch (err) { errorHandler(err) }, then the function ends.
Respond ==
    /\ top = "setup"
    /\ \E err \in ErrorValues : Commit(respond(errorHandler(D, err).d))
    /\ top' = "done"
    /\ UNCHANGED <<children, paramName, handlers, nAdds, added, subRouter, otherRequest, found,
                   adapter, resolved, proxies, transport,
                   middlewares>>

SpecResponder == ResponderInit /\ [][Respond]_vars

(***************************************************************************)
(* resolveIp: request.ip and request.ips.  A string is the sequence of its *)
(* tokens, "::ffff:" being one token of seven characters; the empty string *)
(* is <<>>.  A header is absent or has a value, the sequence of its        *)
(* comma-separated pieces; a piece is its text and whether blanks surround *)
(* it.                                                                     *)
(***************************************************************************)
Piece(pad, text) == [pad |-> pad, text |-> text]

\* ip.trim()
trim(piece) == piece.text

NoHeader == [absent |-> TRUE]
HeaderValue(pieces) == [absent |-> FALSE, pieces |-> pieces]

\* !value of a header value: undefined, null or the empty string.
falsy(h) == h.absent \/ h.pieces = <<Piece(FALSE, <<>>)>>

\* a || b, on strings
or(a, b) == IF a # <<>> THEN a ELSE b

\* seq[i] || "", undefined past the end
elementAt(seq, i) == IF i \in DOMAIN seq THEN seq[i] ELSE <<>>

max(a, b) == IF a >= b THEN a ELSE b

\* .filter(Boolean)
RECURSIVE nonEmpty(_)
nonEmpty(seq) ==
    IF seq = <<>> THEN <<>>
    ELSE IF Head(seq) = <<>> THEN nonEmpty(Tail(seq))
    ELSE <<Head(seq)>> \o nonEmpty(Tail(seq))

\* trustProxy: undefined, a boolean, a number of hops, or an address.
TrustUndefined == [kind |-> "undefined"]
TrustBoolean(b) == [kind |-> "boolean", b |-> b]
TrustNumber(n) == [kind |-> "number", n |-> n]
TrustString(a) == [kind |-> "string", a |-> a]

\* const { trustProxy = false } = config
trustProxyOf(config) ==
    IF config.trustProxy.kind = "undefined" THEN TrustBoolean(FALSE) ELSE config.trustProxy

\* isInCidrRange for a range without "/": ip === cidr
isInCidrRange(ip, cidr) == ip = cidr

shouldTrustProxy(ip, trustProxy) ==
    IF trustProxy.kind = "boolean" THEN trustProxy.b
    ELSE IF trustProxy.kind = "string" THEN isInCidrRange(ip, trustProxy.a)
    ELSE FALSE

\* The socket address without the IPv6 forms of IPv4 addresses.
socketIpOf(remoteAddress) ==
    IF remoteAddress = <<"::1">> \/ remoteAddress = <<"::ffff:", "127.0.0.1">>
    THEN <<"127.0.0.1">>
    ELSE IF remoteAddress # <<>> /\ Head(remoteAddress) = "::ffff:"
    THEN Tail(remoteAddress)
    ELSE remoteAddress

\* The loop from the last address to the first: the first that is not trusted.
RECURSIVE firstUntrusted(_, _, _)
firstUntrusted(allIps, i, trustProxy) ==
    IF i < 1 THEN <<>>
    ELSE IF shouldTrustProxy(allIps[i], trustProxy)
    THEN firstUntrusted(allIps, i - 1, trustProxy)
    ELSE allIps[i]

\* Mutant: the header is read whatever trustProxy is.
resolveIp_AlwaysForwarded(rq, config) ==
    LET trustProxy == trustProxyOf(config)
        socketIp == socketIpOf(rq.socket.remoteAddress)
        alone == [ip |-> socketIp, ips |-> IF socketIp # <<>> THEN <<socketIp>> ELSE <<>>]
        forwardedFor == rq.headers.xForwardedFor
        allIps == nonEmpty([i \in DOMAIN forwardedFor.pieces |-> trim(forwardedFor.pieces[i])])
                     \o (IF socketIp # <<>> THEN <<socketIp>> ELSE <<>>)
    IN  IF falsy(forwardedFor) THEN alone
        ELSE [ip |-> or(elementAt(allIps, 1), socketIp), ips |-> allIps]

\* resolveIp(req, config) with the default ipHeader: [ip, ips].
resolveIp(rq, config) ==
    LET trustProxy == trustProxyOf(config)
        socketIp == socketIpOf(rq.socket.remoteAddress)
        alone == [ip |-> socketIp, ips |-> IF socketIp # <<>> THEN <<socketIp>> ELSE <<>>]
        forwardedFor == rq.headers.xForwardedFor
        allIps == nonEmpty([i \in DOMAIN forwardedFor.pieces |-> trim(forwardedFor.pieces[i])])
                     \o (IF socketIp # <<>> THEN <<socketIp>> ELSE <<>>)
        trustedIndex == max(0, Len(allIps) - max(0, trustProxy.n) - 1)
        untrusted == firstUntrusted(allIps, Len(allIps), trustProxy)
    IN  IF trustProxy = TrustBoolean(FALSE) THEN alone
        ELSE IF falsy(forwardedFor) THEN alone
        ELSE IF trustProxy = TrustBoolean(TRUE)
        THEN [ip |-> or(elementAt(allIps, 1), socketIp), ips |-> allIps]
        ELSE IF trustProxy.kind = "number"
        THEN [ip |-> or(elementAt(allIps, trustedIndex + 1), socketIp), ips |-> allIps]
        ELSE IF untrusted # <<>>
        THEN [ip |-> untrusted, ips |-> allIps]
        ELSE [ip |-> or(elementAt(allIps, 1), socketIp), ips |-> allIps]

\* rawReq as resolveIp receives it. handle: the IncomingMessage, whose socket
\* is the connection. fetch: socket.remoteAddress is x-real-ip, or the first
\* piece of x-forwarded-for, or "127.0.0.1".
rawReqOf(peer, headers) ==
    IF transport = "node"
    THEN [socket |-> [remoteAddress |-> peer], headers |-> headers]
    ELSE [socket |-> [remoteAddress |->
                        or(IF falsy(headers.xRealIp) THEN <<>>
                           ELSE headers.xRealIp.pieces[1].text,
                           or(IF headers.xForwardedFor.absent THEN <<>>
                              ELSE trim(headers.xForwardedFor.pieces[1]),
                              <<"127.0.0.1">>))],
          headers |-> headers]

\* The addresses of the connection: req.socket.remoteAddress.
Peers == { <<>>, <<"1.1.1.1">>, <<"::1">>, <<"::ffff:", "10.0.0.1">>, <<"10.0.0.1">> }

XForwardedFor ==
    { NoHeader,
      HeaderValue(<<Piece(FALSE, <<>>)>>),
      HeaderValue(<<Piece(FALSE, <<"9.9.9.9">>)>>),
      HeaderValue(<<Piece(FALSE, <<"9.9.9.9">>), Piece(TRUE, <<"10.0.0.1">>)>>),
      HeaderValue(<<Piece(TRUE, <<>>), Piece(TRUE, <<"8.8.8.8">>)>>) }

XRealIp == { NoHeader, HeaderValue(<<Piece(FALSE, <<"7.7.7.7">>)>>) }

RequestHeaders == [xForwardedFor : XForwardedFor, xRealIp : XRealIp]

\* opts.server.trustProxy
TrustProxy ==
    { TrustUndefined, TrustBoolean(FALSE), TrustBoolean(TRUE), TrustNumber(0),
      TrustNumber(1), TrustString(<<"10.0.0.1">>) }

\* Two requests arrive from the same peer with their own headers.
IpInit ==
    /\ ClientRouter
    /\ adapter = "v1"
    /\ transport \in {"node", "fetch"}
    /\ NoRequestYet
    /\ resolved \in [done : {FALSE}, trustProxy : TrustProxy, peer : Peers,
                     a : RequestHeaders, b : RequestHeaders]

\* handle / fetch: const { ip, ips } = resolveIp(rawReq, {trustProxy}), for each.
ResolveIp ==
    /\ ~resolved.done
    /\ resolved' =
          [done |-> TRUE, trustProxy |-> resolved.trustProxy, peer |-> resolved.peer,
           a |-> resolved.a, b |-> resolved.b,
           ipA |-> resolveIp(rawReqOf(resolved.peer, resolved.a),
                             [trustProxy |-> resolved.trustProxy]),
           ipB |-> resolveIp(rawReqOf(resolved.peer, resolved.b),
                             [trustProxy |-> resolved.trustProxy])]
    /\ UNCHANGED <<children, paramName, handlers, nAdds, added, subRouter, otherRequest, found,
                   adapter, proxies, transport, middlewares,
                   top, req, chain, idx, ent, stack, started, res, client, handled,
                   unhandled, proxying>>

SpecIp == IpInit /\ [][ResolveIp]_vars

(***************************************************************************)
(* Router claims                                                           *)
(***************************************************************************)
sA == <<"a">>
sB == <<"b">>
nodeA == <<sA>>                 \* /a
nodeAB == <<sA, sB>>            \* /a/b
nodeAP == <<sA, paramKey>>      \* /a/:name
nodeP == <<paramKey>>           \* /:name
nodePP == <<paramKey, paramKey>>   \* /:name/:name

Registered(node, method) == <<node, method>> \in DOMAIN handlers

OnlyRoute(node, method) == DOMAIN handlers = {<<node, method>>}

\* The segments of a request, as the claims speak of them: the non-empty
\* '/'-separated pieces of the part before the first '?'.
reqSegs == findSegments(found.path)

\* C1 (as claimed): with GET /a/:a the only route, every request GET a/s binds
\* params exactly {a: s}; with GET /:a/:b the only route, every request
\* GET s/t binds exactly {a: s, b: t}.
C1_ParamsBound ==
    found.called /\ found.method = "GET" =>
        /\ ( /\ OnlyRoute(nodeAP, "GET")
             /\ paramName[nodeAP] = sA
             /\ Len(reqSegs) = 2 /\ reqSegs[1] = sA )
           => ( /\ found.result.ok
                /\ found.result.params = [n \in {sA} |-> reqSegs[2]] )
        /\ ( /\ OnlyRoute(nodePP, "GET")
             /\ paramName[nodeP] = sA /\ paramName[nodePP] = sB
             /\ Len(reqSegs) = 2 )
           => ( /\ found.result.ok
                /\ found.result.params =
                      [n \in {sA, sB} |-> IF n = sA THEN reqSegs[1] ELSE reqSegs[2]] )

\* C1, the part that holds: the same for request segments other than ":".
C1_ParamsBoundExceptColon ==
    found.called /\ found.method = "GET"
    /\ (\A i \in 1..Len(reqSegs) : reqSegs[i] # paramKey) =>
        /\ ( /\ OnlyRoute(nodeAP, "GET")
             /\ paramName[nodeAP] = sA
             /\ Len(reqSegs) = 2 /\ reqSegs[1] = sA )
           => ( /\ found.result.ok
                /\ found.result.params = [n \in {sA} |-> reqSegs[2]] )
        /\ ( /\ OnlyRoute(nodePP, "GET")
             /\ paramName[nodeP] = sA /\ paramName[nodePP] = sB
             /\ Len(reqSegs) = 2 )
           => ( /\ found.result.ok
                /\ found.result.params =
                      [n \in {sA, sB} |-> IF n = sA THEN reqSegs[1] ELSE reqSegs[2]] )

\* The request a/: against GET /a/:a alone: found, with no parameter bound.
C1_ColonSegment ==
    /\ found.called /\ found.method = "GET"
    /\ OnlyRoute(nodeAP, "GET")
    /\ reqSegs = <<sA, paramKey>>
    /\ found.result.ok
    /\ found.result.params = NoParams

\* The node named by the request's own segments, taken as literal keys.
literalNode == reqSegs

LiteralPathExists ==
    \A i \in 1..Len(reqSegs) : SubSeq(reqSegs, 1, i) \in children

\* C2: with GET /a/b and GET /a/:a both registered, GET a/b returns the chain
\* of /a/b with no params; and whenever every request segment has a literal
\* child along the way, the result is the literal node's: its chain for the
\* method with no params, or not found when it has no chain for the method.
C2_LiteralFirst ==
    found.called =>
        /\ ( /\ Registered(nodeAB, "GET") /\ Registered(nodeAP, "GET")
             /\ found.method \in {"GET", "get"}
             /\ reqSegs = <<sA, sB>> )
           => ( /\ found.result.ok
                /\ found.result.handlers = handlers[<<nodeAB, "GET">>]
                /\ found.result.handlers # handlers[<<nodeAP, "GET">>]
                /\ found.result.params = NoParams )
        /\ LiteralPathExists
           => ( /\ found.result.ok = Registered(literalNode, toUpperCase(found.method))
                /\ found.result.ok =>
                      /\ found.result.handlers =
                            handlers[<<literalNode, toUpperCase(found.method)>>]
                      /\ found.result.params = NoParams )

C2_Witness ==
    /\ found.called
    /\ Registered(nodeAB, "GET") /\ Registered(nodeAP, "GET")
    /\ found.method = "GET"
    /\ reqSegs = <<sA, sB>>
    /\ found.result.ok
    /\ found.result.params = NoParams

\* The walk of the request over the trie, stated as a relation: the node n ends
\* the walk when it has one key per request segment, every prefix of it is a
\* node, and each key is the segment itself when the node before has a literal
\* child of that name and the parameter key otherwise.
EndsWalk(n) ==
    /\ Len(n) = Len(reqSegs)
    /\ \A i \in 1..Len(reqSegs) :
          /\ SubSeq(n, 1, i) \in children
          /\ n[i] = IF Append(SubSeq(n, 1, i - 1), reqSegs[i]) \in children
                    THEN reqSegs[i]
                    ELSE paramKey

WalkEnds == {n \in children : EndsWalk(n)}

\* C9: find fails exactly when a segment has neither a literal nor a parameter
\* child, or the node reached has no chain for the uppercased method; both
\* failures are the same HttpError 404; otherwise find returns the chain stored
\* for the method at the node reached. With only GET /a registered, POST a
\* fails and GET a succeeds.
C9_MethodSpecificity ==
    found.called =>
        LET m == toUpperCase(found.method)
            out == found.result
        IN  /\ out.ok = (\E n \in WalkEnds : Registered(n, m))
            /\ out.ok => \A n \in WalkEnds : out.handlers = handlers[<<n, m>>]
            /\ ~out.ok => /\ out.error = [kind |-> "HttpError", status |-> 404,
                                          message |-> "Route not found",
                                          payload |-> Undefined]
                          /\ out.why = IF WalkEnds = {} THEN "segment" ELSE "method"
            /\ (OnlyRoute(nodeA, "GET") /\ reqSegs = <<sA>>) => (out.ok = (m = "GET"))

C9_Witness ==
    /\ found.called
    /\ OnlyRoute(nodeA, "GET")
    /\ reqSegs = <<sA>>
    /\ found.method = "POST"
    /\ ~found.result.ok
    /\ found.result.why = "method"

C9_WitnessSegment ==
    /\ found.called
    /\ OnlyRoute(nodeA, "GET")
    /\ reqSegs = <<sB>>
    /\ ~found.result.ok
    /\ found.result.why = "segment"

\* C10, the lookups: with GET /:a and GET /a/:a the two routes, GET b returns
\* the chain of /:a with {a: b} and GET a/b returns the chain of /a/:a with
\* {a: b}; a one-segment request returns only chains registered at depth one.
C10_Lookups ==
    ( /\ found.called /\ found.method = "GET"
      /\ DOMAIN handlers = {<<nodeP, "GET">>, <<nodeAP, "GET">>}
      /\ paramName[nodeP] = sA /\ paramName[nodeAP] = sA )
    => /\ reqSegs = <<sB>> =>
             /\ found.result.ok
             /\ found.result.handlers = handlers[<<nodeP, "GET">>]
             /\ found.result.params = [n \in {sA} |-> sB]
       /\ reqSegs = <<sA, sB>> =>
             /\ found.result.ok
             /\ found.result.handlers = handlers[<<nodeAP, "GET">>]
             /\ found.result.params = [n \in {sA} |-> sB]
       /\ (Len(reqSegs) = 1 /\ found.result.ok)
          => \E n \in children :
                /\ Len(n) = 1 /\ Registered(n, "GET")
                /\ found.result.handlers = handlers[<<n, "GET">>]

\* The step adds GET at `node` to a router whose only route is GET at `other`.
AddsNewRoute(node, other) ==
    /\ DOMAIN handlers = {<<other, "GET">>}
    /\ DOMAIN handlers' = {<<other, "GET">>, <<node, "GET">>}
    /\ handlers'[<<other, "GET">>] = handlers[<<other, "GET">>]

\* The requests that resolve to the chain registered for GET at `node`.
ResolvedBy(node) ==
    {p \in RequestPaths :
        find("GET", p).ok /\ find("GET", p).handlers = handlers[<<node, "GET">>]}

AddingKeeps ==
    /\ AddsNewRoute(nodeAP, nodeP)
       => \A p \in ResolvedBy(nodeP) : find("GET", p)' = find("GET", p)
    /\ AddsNewRoute(nodeP, nodeAP)
       => \A p \in ResolvedBy(nodeAP) : find("GET", p)' = find("GET", p)

AddingKeepsExceptLiteral ==
    /\ AddsNewRoute(nodeAP, nodeP)
       => \A p \in ResolvedBy(nodeP) :
             IF findSegments(p) = <<sA>>
             THEN ~find("GET", p)'.ok
             ELSE find("GET", p)' = find("GET", p)
    /\ AddsNewRoute(nodeP, nodeAP)
       => \A p \in ResolvedBy(nodeAP) : find("GET", p)' = find("GET", p)

\* C10 (as claimed): the two lookups, and adding GET /a/:a changes the result
\* of no GET request that GET /:a resolved, and adding GET /:a changes the
\* result of no GET request that GET /a/:a resolved.
C10_AsClaimed == [][C10_Lookups' /\ AddingKeeps]_rvars

\* C10 (amended): the two lookups, and adding either route changes the result
\* of no request the other resolved, except the one-segment request a itself,
\* which GET /:a resolved before GET /a/:a was added and which is not found
\* afterwards.
C10_RootParamIsolation == [][C10_Lookups' /\ AddingKeepsExceptLiteral]_rvars

C10_Witness ==
    /\ found.called /\ found.method = "GET"
    /\ DOMAIN handlers = {<<nodeP, "GET">>, <<nodeAP, "GET">>}
    /\ handlers[<<nodeP, "GET">>] = <<2>>
    /\ reqSegs = <<sB>>
    /\ found.result.ok
    /\ found.result.handlers = <<2>>
    /\ found.result.params = [n \in {sA} |-> sB]

(***************************************************************************)
(* Dispatch claims                                                         *)
(***************************************************************************)
Started(i) == \E k \in DOMAIN started : started[k] = i

fnAt(i) == chain[i].fn

PassStyles == {"cbPass", "dsPass", "barePass"}
Terminals == {"hSync", "hAsync"}

\* C3: in a chain of a global middleware M (callback, destructured or bare, doing
\* asynchronous work, setting request.user, then calling next()) followed by a
\* route handler H, H starts only after M has done its work and set the user,
\* and once the request is over H has been invoked, has seen the user M set,
\* and the client has received H's response with status 200.
C3_MiddlewareThenHandler ==
    (Len(middlewares) = 1 /\ Len(chain) = 2
        /\ fnAt(1) \in PassStyles /\ fnAt(2) \in Terminals) =>
        /\ Started(2) => (ent[1].pc > 2 /\ req.user)
        /\ Quiet => /\ started = <<1, 2>>
                    /\ ent[2].seen = "user"
                    /\ client = [status |-> 200, body |-> [by |-> 2, user |-> "user"]]

ErrStyles == {"cbErr", "cbRetErr", "dsErr", "cbThrow", "dsThrow"}

\* The error entry i raised: the one it passed to next, else the one it threw
\* or its promise rejected with.
errOf(i) == IF ent[i].signalled # NoError THEN ent[i].signalled ELSE ent[i].result

\* The status an error response carries for err.
carried(err) == IF err.kind = "HttpError" THEN err.status ELSE 500

\* C4: when the first global middleware calls next(err), throws or returns a
\* rejecting promise, no later chain entry is invoked, and once the request is
\* over handle / fetch has returned and the client has received one response,
\* whose status is the one err carries (500 when err is not an HttpError).
C4_ErrorShortCircuit ==
    (Len(middlewares) >= 1 /\ Len(chain) >= 2 /\ fnAt(1) \in ErrStyles) =>
        /\ \A j \in 2..Len(chain) : ~Started(j)
        /\ Quiet => /\ top = "done"
                    /\ errOf(1) # NoError
                    /\ client # NoResponse
                    /\ client.status = carried(errOf(1))

\* C5: chain entry j is invoked only once entry j-1 has called next() or its
\* promise has settled, and no caller starts two chain entries.
C5_Sequential ==
    /\ \A j \in 2..Len(chain) :
          Started(j) => (ent[j - 1].nexts > 0 \/ ent[j - 1].adapted.s # "pending")
    /\ \A j, k \in DOMAIN ent :
          (Started(j) /\ Started(k) /\ j # k) => ent[j].by # ent[k].by

\* C6: for a request that resolves to a route the chain is the global
\* middleware in use() order followed by the route's handlers in registration
\* order; entries start in chain order, so no route handler starts before every
\* global middleware has; and when every entry invoked before the last one has
\* called next() once, with no error, every entry has started once the request
\* is over.
C6_ChainOrder ==
    (found.called /\ found.result.ok) =>
        LET n == Len(middlewares)
            hs == found.result.handlers
        IN  /\ Len(chain) = n + Len(hs)
            /\ \A i \in 1..n : chain[i].fn = middlewares[i].fn
            /\ \A i \in 1..Len(hs) : chain[n + i].fn = hs[i].fn
            /\ \A k \in DOMAIN started : started[k] = k
            /\ (Quiet /\ \A i \in 1..(Len(chain) - 1) :
                            Started(i) => (ent[i].nexts = 1 /\ errOf(i) = NoError))
                  => Len(started) = Len(chain)

\* The order part of C6 on its own: the chain is middleware then route
\* handlers, and entries start in chain order.
C6_StartOrder ==
    (found.called /\ found.result.ok) =>
        LET n == Len(middlewares)
            hs == found.result.handlers
        IN  /\ Len(chain) = n + Len(hs)
            /\ \A i \in 1..n : chain[i].fn = middlewares[i].fn
            /\ \A i \in 1..Len(hs) : chain[n + i].fn = hs[i].fn
            /\ \A k \in DOMAIN started : started[k] = k

\* C7 as claimed: the status is the error's status field for an HttpError and
\* for any other object with a status, 500 otherwise; the body is the error's
\* payload when it has one, otherwise {error: message}, the message of a thrown
\* non-Error value being the value itself.
C7_AsClaimed ==
    handled # <<>> =>
        LET e == handled[1]
        IN  client =
              [status |-> IF e.kind \in {"HttpError", "object"} THEN e.status ELSE 500,
               body |-> IF e.payload \notin {Undefined, Null} THEN e.payload
                        ELSE [error |-> IF e.kind = "string" THEN e.value
                                        ELSE e.message]]

\* C7: the status is the error's status field only when the error is an
\* HttpError, 500 otherwise; the body is the payload of an HttpError whose
\* payload is neither undefined nor null, otherwise {error: m}, m being the
\* error's message, or "Internal Server Error" when the message is empty or
\* absent.
C7_ErrorResponse ==
    handled # <<>> =>
        LET e == handled[1]
        IN  client =
              [status |-> IF e.kind = "HttpError" THEN e.status ELSE 500,
               body |-> IF e.kind = "HttpError" /\ e.payload \notin {Undefined, Null}
                        THEN e.payload
                        ELSE [error |-> IF e.message \in {"", "undefined"}
                                        THEN "Internal Server Error"
                                        ELSE e.message]]

\* A status-bearing object that is no HttpError has been answered with 500 and
\* its message.
C7_Witness ==
    /\ handled = <<StatusObject(401, "Unauthorized", [field |-> "email"])>>
    /\ client = [status |-> 500, body |-> [error |-> "Unauthorized"]]

\* C8: when find fails for the request, no chain entry is invoked and the
\* client has received 404 {"error": "Route not found"}, on handle and on fetch.
C8_NotFound ==
    (found.called /\ ~found.result.ok) =>
        /\ started = <<>>
        /\ \A i \in DOMAIN ent : ent[i].st = "idle"
        /\ top = "done"
        /\ client = [status |-> 404, body |-> [error |-> "Route not found"]]

\* A request for a method the matched node has no chain for, with a global
\* middleware registered, on fetch.
C8_Witness ==
    /\ found.called
    /\ found.result.why = "method"
    /\ middlewares # <<>>
    /\ transport = "fetch"
    /\ client = [status |-> 404, body |-> [error |-> "Route not found"]]

\* C3, v1: the callback-style middleware has called next() and returned, the
\* request is over on handle, the route handler was never invoked and nothing
\* was sent.
C3_HandlerNeverInvoked ==
    /\ adapter = "v1"
    /\ transport = "node"
    /\ Len(middlewares) = 1
    /\ Len(chain) = 2
    /\ fnAt(1) = "cbPass"
    /\ Quiet
    /\ ent[1].st = "ret"
    /\ ent[1].nexts = 1
    /\ ~Started(2)
    /\ client = NoResponse

\* C4, v2: the callback-style middleware has passed an HttpError to next, the
\* request is over on handle, errorHandler was never called, nothing was sent
\* and a promise rejected unhandled.
C4_ErrorSwallowed ==
    /\ adapter = "v2"
    /\ transport = "node"
    /\ Len(chain) >= 2
    /\ fnAt(1) = "cbErr"
    /\ Quiet
    /\ ent[1].signalled = HttpError(401, "Unauthorized", Undefined)
    /\ handled = <<>>
    /\ client = NoResponse
    /\ unhandled

\* C5: the third entry runs, started by the first entry's second next(), while
\* the second entry is suspended in its work and has not called next().
C5_SideBySide ==
    /\ Len(chain) = 3
    /\ fnAt(1) = "dsTwice"
    /\ ent[2].st = "work"
    /\ ent[2].nexts = 0
    /\ ent[3].st = "run"
    /\ ent[3].by = 1

\* C6, v1: two global middleware have each called next() once, the request is
\* over, and the route handler never started.
C6_HandlerNeverStarts ==
    /\ adapter = "v1"
    /\ Len(middlewares) = 2
    /\ Len(chain) = 3
    /\ Quiet
    /\ started = <<1, 2>>
    /\ ent[1].nexts = 1 /\ errOf(1) = NoError
    /\ ent[2].nexts = 1 /\ errOf(2) = NoError

(***************************************************************************)
(* Registration claims                                                     *)
(***************************************************************************)
\* The add calls made so far that name the route of the find call: the same
\* method ignoring case, the same sequence of non-empty segments.
SameRoute == {i \in 1..Len(added) :
                 /\ toUpperCase(added[i].method) = toUpperCase(found.method)
                 /\ addSegments(added[i].path) = addSegments(found.path)}

LastOf(S) == CHOOSE i \in S : \A j \in S : j <= i

\* The find call is made with the path of an add call, as written there.
FindsRegisteredPath == \E i \in SameRoute : added[i].path = found.path

\* C11: after any sequence of add calls, find(m, p) for a registered p returns
\* exactly the chain of the last add call for that method (ignoring case) and
\* that sequence of segments: an earlier chain for the route is gone, the
\* duplicate raises no error, and add calls for another method at the path do
\* not change it.
C11_LastWriteWins ==
    (found.called /\ FindsRegisteredPath)
    => /\ found.result.ok
       /\ found.result.handlers = <<LastOf(SameRoute)>>

\* post /a/b, GET /a/b, then get a//b/: GET /a/b returns the third chain.
C11_Witness ==
    /\ found.called
    /\ Len(added) = 3
    /\ added[1] = [method |-> "post", path |-> pAB]
    /\ added[2] = [method |-> "GET", path |-> pAB]
    /\ added[3] = [method |-> "get", path |-> pABslashes]
    /\ found.method = "GET" /\ found.path = pAB
    /\ found.result.ok
    /\ found.result.handlers = <<3>>

\* The same registrations: POST /a/b still returns the first chain.
C11_WitnessOtherMethod ==
    /\ found.called
    /\ Len(added) = 3
    /\ added[1] = [method |-> "post", path |-> pAB]
    /\ added[2] = [method |-> "GET", path |-> pAB]
    /\ added[3] = [method |-> "get", path |-> pABslashes]
    /\ found.method = "POST" /\ found.path = pAB
    /\ found.result.ok
    /\ found.result.handlers = <<1>>

\* The part of a path before its first '?'.
RECURSIVE beforeQuery(_)
beforeQuery(path) ==
    IF path = <<>> \/ Head(path) = "?" THEN <<>>
    ELSE <<Head(path)>> \o beforeQuery(Tail(path))

\* The non-empty '/'-separated pieces of a string, read left to right; `piece`
\* is the piece being read.
RECURSIVE pieces(_, _)
pieces(str, piece) ==
    LET done == IF piece = <<>> THEN <<>> ELSE <<piece>>
    IN  IF str = <<>> THEN done
        ELSE IF Head(str) = "/" THEN done \o pieces(Tail(str), <<>>)
        ELSE pieces(Tail(str), Append(piece, Head(str)))

\* The path "/s1/s2/..." of a sequence of segments.
RECURSIVE joined(_)
joined(segs) ==
    IF segs = <<>> THEN <<>>
    ELSE <<"/">> \o Head(segs) \o joined(Tail(segs))

\* A request path in its normal spelling, and an add call in its normal
\* spelling with its chain.
NormalRequest(path) == joined(pieces(beforeQuery(path), <<>>))

NormalCalls ==
    [i \in 1..Len(added) |->
        [method |-> toUpperCase(added[i].method),
         path |-> joined(pieces(added[i].path, <<>>)),
         handlers |-> <<i>>]]

\* C12: the result of find(method, path) is the result of find for the
\* uppercased method and the path rebuilt from the non-empty segments before
\* the first '?'; with GET /a/b registered last, /a//b/, a/b and /a/b?x=1 (in
\* any method case) return what GET /a/b returns; and the trie built by the
\* add calls is the trie built by the same calls in their normal spelling.
C12_PathNormalization ==
    /\ found.called =>
          /\ found.result = find(toUpperCase(found.method), NormalRequest(found.path))
          /\ ( /\ toUpperCase(found.method) = "GET"
               /\ found.path \in { <<"/", "a", "/", "/", "b", "/">>,
                                   <<"a", "/", "b">>,
                                   <<"/", "a", "/", "b", "?", "x", "=", "1">> } )
             => found.result = find("GET", pAB)
    /\ LET t == routerOf(NormalCalls)
       IN  /\ children = t.children
           /\ paramName = t.paramName
           /\ handlers = t.handlers

\* get a//b/ registered; get /a/b?x=1 returns its chain.
C12_Witness ==
    /\ found.called
    /\ added = << [method |-> "get", path |-> pABslashes] >>
    /\ found.method = "get"
    /\ found.path = <<"/", "a", "/", "b", "?", "x", "=", "1">>
    /\ found.result.ok
    /\ found.result.handlers = <<1>>
    /\ found.result.params = NoParams

(***************************************************************************)
(* Adapter claims                                                          *)
(***************************************************************************)
\* Chain entry i is a user function of declared arity `len` under one adapter.
AdaptedOnce(i, len) ==
    /\ Started(i)
    /\ chain[i].wraps = 1
    /\ fnLength(Library[chain[i].fn]) = len

\* The calls of its callback the user function of entry i has made so far, as
\* positions in its body.
CallbackCalls(i) ==
    {k \in 1..(ent[i].pc - 1) :
        k <= Len(Library[chain[i].fn].script)
        /\ Library[chain[i].fn].script[k] \in {"next", "anext", "nerr", "anerr"}}

FirstCall(i) == CHOOSE k \in CallbackCalls(i) : \A j \in CallbackCalls(i) : k <= j

\* The first outcome of the user function of entry i: its first callback call,
\* or else the settlement of the promise it returned; Pending when neither has
\* happened.
FirstOutcome(i) ==
    LET h == Library[chain[i].fn]
    IN  IF CallbackCalls(i) # {}
        THEN IF h.script[FirstCall(i)] \in {"next", "anext"}
             THEN Resolved ELSE Rejected(ent[i].signalled)
        ELSE IF h.async /\ ent[i].st = "fail" THEN Rejected(ent[i].result)
        ELSE IF h.async /\ ent[i].st = "ret" THEN Resolved
        ELSE Pending

\* C13: a function of declared arity 3 is called with the request, the
\* response and a callback, and once nothing more can happen the adapted
\* promise is settled as the first outcome says: resolved when the callback was
\* first called with no error, rejected with err when it was first called with
\* err, settled as the returned promise when that settled first; later callback
\* calls change nothing.
C13_CallbackAdaptation ==
    \A i \in DOMAIN ent :
        AdaptedOnce(i, 3) =>
            /\ argsOf(D, i) = [req |-> "request", res |-> "response", next |-> "callback"]
            /\ (Quiet /\ FirstOutcome(i) # Pending) => ent[i].adapted = FirstOutcome(i)

\* C13 for the v1 adapter alone.
C13_HoldsForV1 == adapter = "v1" => C13_CallbackAdaptation

\* C13, v2: the function called its callback with an HttpError and returned;
\* the adapted promise has resolved.
C13_RejectionLost ==
    /\ adapter = "v2"
    /\ chain = <<adaptRequestHandler(raw("cbErr"))>>
    /\ Quiet
    /\ ent[1].nexts = 1
    /\ ent[1].signalled = HttpError(401, "Unauthorized", Undefined)
    /\ ent[1].adapted = Resolved
    /\ handled = <<>>

\* C14: whenever the user function of an adapted handler (whatever its arity)
\* has thrown, or the promise it returned has rejected, with e, the adapted
\* promise is rejected with e.
C14_FailurePropagates ==
    \A i \in DOMAIN ent :
        (Started(i) /\ chain[i].wraps = 1 /\ ent[i].st = "fail")
            => ent[i].adapted = Rejected(ent[i].result)

\* C14 for the v2 adapter alone.
C14_HoldsForV2 == adapter = "v2" => C14_FailurePropagates

\* C14, v1: the function called its callback with no error and then threw; the
\* adapted promise has resolved and the error reached nobody.
C14_ThrowSwallowed ==
    /\ adapter = "v1"
    /\ chain = <<adaptRequestHandler(raw("cbNextThrow"))>>
    /\ Quiet
    /\ ent[1].st = "fail"
    /\ ent[1].result = PlainError("boom")
    /\ ent[1].adapted = Resolved
    /\ handled = <<>>
    /\ ~unhandled

\* C15: a (req, res) handler of a route is called with the request facade and
\* the response facade and no next; the request carries the route's params;
\* once the request is over the handler has returned, the client has received
\* the response it wrote, with status 200, and no later chain entry was invoked.
C15_PairHandler ==
    \A i \in DOMAIN chain :
        (i > Len(middlewares) /\ chain[i].fn = "hPair" /\ Started(i)) =>
            /\ argsOf(D, i) = [req |-> "request", res |-> "response", next |-> "none"]
            /\ req.params = found.result.params
            /\ Quiet =>
                  /\ ent[i].st = "ret"
                  /\ client # NoResponse
                  /\ client.status = 200
                  /\ client.body.by = i
                  /\ \A j \in DOMAIN chain : j > i => ~Started(j)

\* C15 for the v2 adapter alone.
C15_HoldsForV2 == adapter = "v2" => C15_PairHandler

\* C15, v1: GET /:a with a (req, res) handler, request GET /a: the handler was
\* called with the context as req and nothing as res, res.json threw a
\* TypeError, and the client has received 500.
C15_PairGetsContext ==
    /\ adapter = "v1"
    /\ chain = <<adaptRequestHandler(adaptRequestHandler(raw("hPair")))>>
    /\ req.params = [n \in {sA} |-> sA]
    /\ argsOf(D, 1) = [req |-> "context", res |-> "undefined", next |-> "none"]
    /\ Quiet
    /\ ent[1].st = "fail"
    /\ ent[1].result = TypeError
    /\ client = [status |-> 500, body |-> [error |-> "TypeError"]]

(***************************************************************************)
(* Response claims                                                         *)
(***************************************************************************)
\* C16: on handle, the terminal write of the response, rawRes.end, reached
\* through send, json, redirect or the error responder, is called at most once
\* for a request, whatever the handlers do.
C16_EndAtMostOnce == transport = "node" => res.ends <= 1

\* A middleware sent a text twice: rawRes.end was called twice; the client has
\* the first text, and the second end(text) made the response emit 'error',
\* which nothing listens to.
C16_SecondSendRaises ==
    /\ transport = "node"
    /\ chain # <<>>
    /\ fnAt(1) = "dsSendTwice"
    /\ Quiet
    /\ ent[1].st = "ret"
    /\ res.ends = 2
    /\ res.writes = 1
    /\ res.uncaught
    /\ ~unhandled
    /\ handled = <<>>
    /\ client = [status |-> 200, body |-> Text(<<1, "unread">>)]

\* A middleware redirected and then sent a text: rawRes.end was called twice,
\* the client has the redirection and the response emitted 'error'.
C16_RedirectThenSend ==
    /\ transport = "node"
    /\ chain # <<>>
    /\ fnAt(1) = "dsRedirectSend"
    /\ Quiet
    /\ ent[1].st = "ret"
    /\ res.ends = 2
    /\ res.writes = 1
    /\ res.location = "/login"
    /\ res.uncaught
    /\ client = [status |-> 302, body |-> NoBody]

\* What holds on handle: the client receives at most one response, that of the
\* first call of rawRes.end, because the Node response writes nothing once it
\* has ended.
C16_OneResponse ==
    transport = "node" =>
        /\ res.writes <= 1
        /\ res.ended = (res.writes = 1)
        /\ (client # NoResponse) = (res.writes = 1)
        /\ res.ends >= res.writes

\* What holds on handle: the error responder called once the headers have been
\* sent does not reach rawRes.end, and leaves what the client has received.
C16_ErrorAfterWrite ==
    [][(transport = "node" /\ res.headersSent /\ handled' # handled) =>
          (res'.ends = res.ends /\ res'.writes = res.writes /\ client' = client)]_vars

\* What holds on handle: a call of rawRes.end on a response that has ended is
\* made by send, the one path to it that sets no header first.
C16_SecondEndBySend ==
    [][(transport = "node" /\ res.ended /\ res'.ends > res.ends) =>
          (/\ stack # <<>>
           /\ LET i == stack[Len(stack)]
              IN  /\ ent[i].pc <= Len(handlerOf(D, i).script)
                  /\ handlerOf(D, i).script[ent[i].pc] \in {"send", "end204"})]_vars

\* A middleware wrote the response and then threw: the error responder was
\* called, rawRes.end was not called again, and the client has the one
\* response the middleware wrote; the error responder threw in its turn.
C16_WriteThenThrow ==
    /\ transport = "node"
    /\ Len(chain) = 2
    /\ fnAt(1) = "dsWriteThrow"
    /\ Quiet
    /\ ent[1].st = "fail"
    /\ handled # <<>>
    /\ handled[1] = PlainError("boom")
    /\ res.ends = 1
    /\ res.writes = 1
    /\ unhandled
    /\ client = [status |-> 200, body |-> [by |-> 1, user |-> "unread"]]

\* A middleware wrote the response and then redirected: setHeader threw,
\* rawRes.end was not called again and the client has what was written.
C16_WriteThenRedirect ==
    /\ transport = "node"
    /\ chain # <<>>
    /\ fnAt(1) = "dsWriteRedirect"
    /\ Quiet
    /\ ent[1].st = "fail"
    /\ ent[1].result = HeadersSent
    /\ res.ends = 1
    /\ res.location = "none"
    /\ client = [status |-> 200, body |-> [by |-> 1, user |-> "unread"]]

\* A middleware wrote the response, awaited work that ended in a later turn of
\* the event loop and passed on to one that sent a text twice: the response
\* had been closed and emitted nothing, rawRes.end having been called three
\* times.
C16_SendAfterClose ==
    /\ transport = "node"
    /\ Len(chain) >= 2
    /\ fnAt(1) = "dsWriteNext" /\ fnAt(2) = "dsSendTwice"
    /\ Quiet
    /\ ent[2].st = "ret"
    /\ res.ends = 3
    /\ res.writes = 1
    /\ res.closed
    /\ ~res.uncaught

\* The same chain, the work ending within the turn of the event loop: the
\* response was not closed yet and emitted 'error'.
C16_SendBeforeClose ==
    /\ transport = "node"
    /\ Len(chain) >= 2
    /\ fnAt(1) = "dsWriteNext" /\ fnAt(2) = "dsSendTwice"
    /\ Quiet
    /\ ent[2].st = "ret"
    /\ res.ends = 3
    /\ res.writes = 1
    /\ ~res.closed
    /\ res.uncaught

\* 'error' is emitted only by a response that has ended, and never on fetch.
C16_RaisesOnlyAfterEnd ==
    res.uncaught => (transport = "node" /\ res.ended)

(***************************************************************************)
(* Transport claims                                                        *)
(***************************************************************************)
\* The request has been served by handle and then by fetch, and nothing more
\* of it can happen.
ServedByBoth ==
    /\ otherRequest.run
    /\ transport = "fetch"
    /\ Quiet
    /\ middlewares = otherRequest.middlewares
    /\ nAdds = otherRequest.nAdds

\* C17, the dispatch decision: handle and fetch invoke the same chain entries
\* in the same order, with the same params.
C17_SameDispatch ==
    ServedByBoth =>
        /\ chain = otherRequest.d.chain
        /\ started = otherRequest.d.started
        /\ req.params = otherRequest.d.req.params

\* C17: for the same routes, middleware and request, handle and fetch invoke
\* the same chain entries in the same order with the same params, and the
\* client receives the same status and body from both.
C17_TransportEquivalence ==
    ServedByBoth =>
        /\ chain = otherRequest.d.chain
        /\ started = otherRequest.d.started
        /\ req.params = otherRequest.d.req.params
        /\ client = otherRequest.d.client

\* C17 when find fails: both entry points answer 404.
C17_SameNotFound ==
    (ServedByBoth /\ ~found.result.ok) => client = otherRequest.d.client

\* C17, v2: a callback-style middleware that calls next() and an async route
\* handler: handle sent the handler's response, fetch returned an empty 200
\* before the handler wrote.
C17_FetchReturnsEarly ==
    /\ ServedByBoth
    /\ adapter = "v2"
    /\ Len(chain) = 2
    /\ fnAt(1) = "cbPass" /\ fnAt(2) = "hAsync"
    /\ started = <<1, 2>> /\ otherRequest.d.started = <<1, 2>>
    /\ otherRequest.d.client = [status |-> 200, body |-> [by |-> 2, user |-> "user"]]
    /\ client = [status |-> 200, body |-> [empty |-> TRUE]]

(***************************************************************************)
(* Concurrency claims                                                      *)
(***************************************************************************)
Least(S) == CHOOSE i \in S : \A j \in S : i <= j

\* The error entry i raises when the request runs alone: the one it raised in
\* the run observed.
raisedBy(i) ==
    IF i \in DOMAIN ent /\ errOf(i) # NoError THEN errOf(i) ELSE PlainError("boom")

\* What a request served alone, in dispatch state d with handle / fetch at
\* position t, does next: the running function takes its next step; otherwise
\* the work of an entry completes, an await resumes, a settled adapter returns
\* to its next(), or handle / fetch continues after `await next()`.
moves(d, t) ==
    IF d.stack # <<>>
    THEN LET i == d.stack[Len(d.stack)]
         IN  {[d |-> unwind(userStep(d, i, IF NoError \in raisable(d, i)
                                           THEN NoError ELSE raisedBy(i))),
               top |-> t]}
    ELSE {[d |-> workDone(IF k[2] THEN turn(d) ELSE d, k[1]), top |-> t] :
             k \in working(d) \X {b \in BOOLEAN : b => drained(d, t)}}
         \cup {[d |-> unwind(resume(d, i)), top |-> t] : i \in resumable(d)}
         \cup {[d |-> afterFn(d, i), top |-> t] : i \in settled(d)}
         \cup (IF returns(d, t) THEN {[d |-> afterNext(d), top |-> "done"]} ELSE {})

\* A request run alone from dispatch state d (t: the position of handle /
\* fetch) until nothing more of it can happen: the set of its outcomes, one for
\* every order in which its work and its promise reactions complete.
RECURSIVE runAlone(_, _)
runAlone(d, t) ==
    IF moves(d, t) = {} THEN {[d |-> d, top |-> t]}
    ELSE UNION {runAlone(m.d, m.top) : m \in moves(d, t)}

\* The global middleware registered when the chain of the request was built:
\* the chain entries in front of the handlers find returned.
chainMiddlewares ==
    [i \in 1..(Len(chain) - Len(found.result.handlers)) |->
        [fn |-> chain[i].fn, wraps |-> chain[i].wraps - 1]]

\* The request of the last find call, served alone by this server as it was
\* when the request was dispatched: its outcomes.
Alone ==
    runAlone(unwind(tryBlock(DispatchIdle, found.method, found.path,
                             chainMiddlewares, found.result)),
             IF found.result.ok THEN "waiting" ELSE "done")

\* What is compared of an outcome.
observed(t, d) ==
    [top |-> t, chain |-> d.chain, started |-> d.started, handled |-> d.handled,
     client |-> d.client, req |-> d.req]

\* C18: with two requests in flight, in every interleaving of their steps, a
\* request of which nothing more can happen has invoked the chain entries, in
\* the order, and has passed to the error responder the errors, and has given
\* its client the response, that it does when served alone; whatever the other
\* request did, failed with, or is still waiting for.
C18_Independent ==
    (otherRequest # NoOther /\ found.called /\ Quiet) =>
        \E a \in Alone : observed(top, D) = observed(a.top, a.d)

\* Served alone, the requests of this specification have one outcome, in
\* whatever order their work and their promise reactions complete.
C18_AloneDetermined ==
    (otherRequest # NoOther /\ found.called /\ Quiet) =>
        \A a, b \in Alone : observed(a.top, a.d) = observed(b.top, b.d)

\* The first request is suspended in the work of its first middleware; the
\* second request, which arrived after it, failed in its own middleware and
\* its client has the error response.
C18_Witness ==
    /\ otherRequest # NoOther
    /\ otherRequest.top = "waiting"
    /\ otherRequest.d.started = <<1>>
    /\ otherRequest.d.ent[1].st = "work"
    /\ otherRequest.d.client = NoResponse
    /\ Len(chain) = 2
    /\ fnAt(1) = "dsThrow"
    /\ Quiet
    /\ top = "done"
    /\ handled = <<PlainError("boom")>>
    /\ client = [status |-> 500, body |-> [error |-> "boom"]]

\* The first request completed after the second one failed: it was suspended
\* while the second was served, and its client has its handler's response.
C18_WitnessCompletes ==
    /\ otherRequest # NoOther
    /\ otherRequest.top = "done"
    /\ otherRequest.d.handled # <<>>
    /\ Len(chain) = 2
    /\ fnAt(1) = "dsPass"
    /\ adapter = "v2"
    /\ Quiet
    /\ top = "done"
    /\ handled = <<>>
    /\ client = [status |-> 200, body |-> [by |-> 2, user |-> "user"]]

(***************************************************************************)
(* Parameter name claims                                                   *)
(***************************************************************************)
\* The add call of `path` walks through `node`.
passes(path, node) ==
    LET w == addWalk(root, addSegments(path))
    IN  Len(w) > Len(node) /\ w[Len(node) + 1] = node

\* The add call that created `node`: the first one walking through it.
createdBy(node) == Least({k \in DOMAIN added : passes(added[k].path, node)})

\* The name that call's segment carries for the node.
nameGiven(node) == slice1(addSegments(added[createdBy(node)].path)[Len(node)])

rA1C == <<"/", "a", "/", "1", "/", "c">>               \* /a/1/c
rA1B == <<"/", "a", "/", "1", "/", "b">>               \* /a/1/b
posA == <<(<<"a">>), paramKey>>                        \* the node /a/:

AddsOf(path) == {k \in DOMAIN added : added[k].path = path}

\* C20: a node has one parameter child, whose paramName is the name given by
\* the add call that created it whatever later add calls name the position;
\* once /a/:x/b and /a/:y/c are both registered for GET, find GET /a/1/c
\* returns the chain of /a/:y/c with the single parameter bound under the
\* first name, and find GET /a/1/b returns the chain of /a/:x/b.
C20_FirstNameWins ==
    /\ \A n \in children :
          (n # root /\ lastOf(n) = paramKey)
             => /\ n \in DOMAIN paramName
                /\ paramName[n] = nameGiven(n)
    /\ DOMAIN paramName \subseteq children
    /\ (AddsOf(pAxB) # {} /\ AddsOf(pAyC) # {} /\ found.called
          /\ found.method = "GET")
         => /\ found.path = rA1C
                => /\ found.result.ok
                   /\ found.result.handlers = <<LastOf(AddsOf(pAyC))>>
                   /\ found.result.params = bind(NoParams, nameGiven(posA), <<"1">>)
            /\ found.path = rA1B
                => /\ found.result.ok
                   /\ found.result.handlers = <<LastOf(AddsOf(pAxB))>>
                   /\ found.result.params = bind(NoParams, nameGiven(posA), <<"1">>)

\* /a/:x/b then /a/:y/c: /a/1/c resolves to the second chain with {x: "1"}.
C20_Witness ==
    /\ Len(added) = 2
    /\ added[1].path = pAxB
    /\ added[2].path = pAyC
    /\ paramName[posA] = <<"x">>
    /\ found.called
    /\ found.method = "GET"
    /\ found.path = rA1C
    /\ found.result.ok
    /\ found.result.handlers = <<2>>
    /\ DOMAIN found.result.params = {<<"x">>}
    /\ found.result.params[<<"x">>] = <<"1">>

\* The earlier route is still resolvable after the second registration.
C20_WitnessEarlierRoute ==
    /\ Len(added) = 2
    /\ added[1].path = pAxB
    /\ added[2].path = pAyC
    /\ found.called
    /\ found.method = "GET"
    /\ found.path = rA1B
    /\ found.result.ok
    /\ found.result.handlers = <<1>>

(***************************************************************************)
(* Mounting claims                                                         *)
(***************************************************************************)
\* The second router as it was when use was called, and as it is.
subAtMount == routerOf(SubSeq(subRouter.calls, 1, subRouter.at))
subNow == routerOf(subRouter.calls)

\* No add on this router since the use call returned.
ImmediatelyAfter == subRouter.mounted /\ Len(added) = subRouter.upto

\* The path under which a route of the mounted router is looked up: the
\* prefix without one trailing '/', followed by the route's path unless that
\* is '/'.
mountedPath(path) ==
    LET p == subRouter.prefix
        q == IF p # <<>> /\ p[Len(p)] = "/" THEN SubSeq(p, 1, Len(p) - 1) ELSE p
    IN  IF path = <<"/">> THEN q ELSE q \o path

\* The chains given to the second router after the use call.
LaterChains == {subRouter.calls[k].handlers : k \in (subRouter.at + 1)..Len(subRouter.calls)}

\* C19: immediately after use(prefix, sub), every {method, path} of
\* sub.listRoutes() is found on this router under prefix + path with the same
\* handlers in the same order as sub.find(method, path) returned at the call;
\* no chain added to sub after the call is registered on this router or
\* returned by its find.
C19_MountFlattensOnce ==
    subRouter.mounted =>
       /\ ImmediatelyAfter =>
             \A i \in DOMAIN listRoutes(subAtMount) :
                LET route == listRoutes(subAtMount)[i]
                    inSub == findIn(subAtMount, route.method, route.path)
                    inParent == findIn(thisRouter, route.method, mountedPath(route.path))
                IN  /\ inSub.ok
                    /\ inParent.ok
                    /\ inParent.handlers = inSub.handlers
                    /\ (found.called /\ found.method = route.method
                          /\ found.path = mountedPath(route.path))
                          => (found.result.ok /\ found.result.handlers = inSub.handlers)
       /\ \A k \in DOMAIN handlers : handlers[k] \notin LaterChains
       /\ (found.called /\ found.result.ok) => found.result.handlers \notin LaterChains

\* use("/a/", sub) with sub holding GET / and GET /:x/b, on a router that had
\* GET /a: GET /a now returns the chain of sub's GET /.
C19_Witness ==
    /\ ImmediatelyAfter
    /\ subRouter.prefix = <<"/", "a", "/">>
    /\ subRouter.at = 2
    /\ subRouter.calls[1] = [method |-> "GET", path |-> <<"/">>, handlers |-> subChain(1)]
    /\ subRouter.calls[2].path = <<"/", ":", "x", "/", "b">>
    /\ subRouter.before = 1
    /\ added[1].path = <<"/", "a">>
    /\ found.called
    /\ found.method = "GET"
    /\ found.path = <<"/", "a">>
    /\ found.result.ok
    /\ found.result.handlers = subChain(1)

\* sub receives GET /b again after use("/a", sub): GET /a/b still returns the
\* chain that was mounted.
C19_WitnessLaterRoute ==
    /\ ImmediatelyAfter
    /\ subRouter.prefix = <<"/", "a">>
    /\ subRouter.at = 1
    /\ Len(subRouter.calls) = 2
    /\ subRouter.calls[1].path = <<"/", "b">>
    /\ subRouter.calls[2].path = <<"/", "b">>
    /\ subRouter.calls[1].method = "GET"
    /\ subRouter.calls[2].method = "GET"
    /\ found.called
    /\ found.method = "GET"
    /\ found.path = pAB
    /\ found.result.ok
    /\ found.result.handlers = subChain(1)
    /\ findIn(subNow, "GET", <<"/", "b">>).handlers = subChain(2)

\* sub receives GET /:x after use("/a", sub): GET /a/1 is not found.
C19_WitnessLaterNotFound ==
    /\ ImmediatelyAfter
    /\ subRouter.prefix = <<"/", "a">>
    /\ subRouter.at = 1
    /\ Len(subRouter.calls) = 2
    /\ subRouter.calls[1].path = <<"/", "b">>
    /\ subRouter.calls[2].path = <<"/", ":", "x">>
    /\ Len(added) = 1
    /\ found.called
    /\ found.method = "GET"
    /\ found.path = <<"/", "a", "/", "1">>
    /\ ~found.result.ok
    /\ findIn(subNow, "GET", <<"/", "1">>).ok

(***************************************************************************)
(* Greedy matching claims                                                  *)
(***************************************************************************)
\* The node a walk reaches when it takes, at each level, the child keyed by
\* the segment if there is one and the parameter child otherwise, and stops
\* at the first segment with neither: [ok, node].
RECURSIVE greedy(_, _)
greedy(node, segs) ==
    IF segs = <<>> THEN [ok |-> TRUE, node |-> node]
    ELSE IF Append(node, Head(segs)) \in children
    THEN greedy(Append(node, Head(segs)), Tail(segs))
    ELSE IF Append(node, paramKey) \in children
    THEN greedy(Append(node, paramKey), Tail(segs))
    ELSE [ok |-> FALSE, node |-> node]

\* Some walk, free to take either child at each level, ends at a node with a
\* chain for the method.
RECURSIVE someWalk(_, _, _)
someWalk(node, segs, method) ==
    IF segs = <<>> THEN <<node, method>> \in DOMAIN handlers
    ELSE \/ /\ Append(node, Head(segs)) \in children
            /\ someWalk(Append(node, Head(segs)), Tail(segs), method)
         \/ /\ Append(node, paramKey) \in children
            /\ someWalk(Append(node, paramKey), Tail(segs), method)

foundSegs == filterBoolean(split(beforeQuery(found.path), "/"))

\* C24: find succeeds exactly when the greedy walk reaches a node that has a
\* chain for the method, and then returns that chain; when the greedy walk
\* fails at a deeper segment or at the method, the result is 404 "Route not
\* found" even though a walk through a parameter child would succeed.
C24_GreedyNoBacktrack ==
    found.called =>
       LET g == greedy(root, foundSegs)
           key == <<g.node, toUpperCase(found.method)>>
       IN  /\ found.result.ok <=> (g.ok /\ key \in DOMAIN handlers)
           /\ found.result.ok => found.result.handlers = handlers[key]
           /\ ~found.result.ok =>
                 /\ found.result.error.status = 404
                 /\ found.result.error.message = "Route not found"

\* GET /a/b/c and GET /a/:x/d registered: find GET /a/b/d fails, although the
\* walk a, :x, d ends at a chain.
C24_Witness ==
    /\ AddsOf(pABC) # {}
    /\ AddsOf(pAxD) # {}
    /\ found.called
    /\ found.method = "GET"
    /\ found.path = <<"/", "a", "/", "b", "/", "d">>
    /\ ~found.result.ok
    /\ found.result.why = "segment"
    /\ someWalk(root, foundSegs, "GET")

\* POST /items/special and GET /items/:id registered: find GET /items/special
\* fails at the method, although :id would serve it.
C24_WitnessMethod ==
    /\ AddsOf(pItemsSpecial) # {}
    /\ AddsOf(pItemsId) # {}
    /\ found.called
    /\ found.method = "GET"
    /\ found.path = pItemsSpecial
    /\ ~found.result.ok
    /\ found.result.why = "method"
    /\ someWalk(root, foundSegs, "GET")

(***************************************************************************)
(* Frame claims                                                            *)
(***************************************************************************)
\* The path listRoutes builds for a node: '/' and the key of each level, the
\* parameter child rendered with its name.
RECURSIVE listedPath(_, _)
listedPath(node, depth) ==
    IF depth > Len(node) THEN <<>>
    ELSE LET at == SubSeq(node, 1, depth)
             seg == IF node[depth] = paramKey /\ at \in DOMAIN paramName
                                              /\ paramName[at] # <<>>
                    THEN <<":">> \o paramName[at]
                    ELSE node[depth]
         IN  <<"/">> \o seg \o listedPath(node, depth + 1)

\* The {method, path} pairs listRoutes returns, each with the chain stored.
Listed ==
    {[method |-> k[2],
      path |-> IF k[1] = root THEN <<"/">> ELSE listedPath(k[1], 1),
      chain |-> handlers[k]] : k \in DOMAIN handlers}

Pair(r) == [method |-> r.method, path |-> r.path]

\* The listing of the router a log of add calls builds.
ListedByCalls(log) ==
    LET l == listRoutes(routerOf([i \in 1..Len(log) |->
                 [method |-> log[i].method, path |-> log[i].path,
                  handlers |-> <<i>>]]))
    IN  {l[i] : i \in 1..Len(l)}

\* The node an add call of `path` ends at, and the nodes on its way.
terminalOf(path) ==
    LET segs == pieces(path, <<>>)
    IN  [i \in 1..Len(segs) |-> IF segs[i][1] = ":" THEN paramKey ELSE segs[i]]

onTheWay(path) == {SubSeq(terminalOf(path), 1, n) : n \in 0..Len(terminalOf(path))}

\* An add call was made in this step: its arguments.
lastAdd == added'[Len(added')]

AddFrame ==
    LET key == <<terminalOf(lastAdd.path), toUpperCase(lastAdd.method)>>
    IN  /\ children \subseteq children'
        /\ children' \ children \subseteq onTheWay(lastAdd.path)
        /\ \A n \in DOMAIN paramName :
              n \in DOMAIN paramName' /\ paramName'[n] = paramName[n]
        /\ DOMAIN handlers \subseteq DOMAIN handlers'
        /\ DOMAIN handlers' \ DOMAIN handlers \subseteq {key}
        /\ \A k \in DOMAIN handlers : k # key => handlers'[k] = handlers[k]
        /\ handlers'[key] = <<Len(added')>>
        /\ \A r \in Listed :
              /\ Pair(r) \in {Pair(q) : q \in Listed'}
              /\ r \in Listed' \/ (r.method = key[2] /\ r.chain = handlers[key])
        /\ {Pair(q) : q \in Listed'} = ListedByCalls(added')

FindFrame ==
    /\ children' = children
    /\ paramName' = paramName
    /\ handlers' = handlers

\* C26: an add call keeps every node, every parameter name and every chain
\* but the one for its method at its terminal node, creates nodes only on the
\* way to that node, and every pair listRoutes listed before is listed after
\* with the same chain unless it is the pair overwritten; a find call leaves
\* the trie as it is.
C26_AddFrame == [][IF added' # added THEN AddFrame ELSE FindFrame]_vars

\* POST /a/b and GET /a/:x/b are registered and listed and GET /a/b is then
\* added twice: the second call overwrites the first.
C26_Witness ==
    /\ Len(added) = 3
    /\ added[1] = [method |-> "post", path |-> pAB]
    /\ added[2] = [method |-> "GET", path |-> pAB]
    /\ added[3] = [method |-> "get", path |-> pABslashes]
    /\ Listed = {[method |-> "POST", path |-> pAB, chain |-> <<1>>],
                 [method |-> "GET", path |-> pAB, chain |-> <<3>>]}

\* A find call made on a trie with three routes.
C26_WitnessFind ==
    /\ Len(added) = 3
    /\ Cardinality(Listed) = 3
    /\ found.called
    /\ found.result.ok

(***************************************************************************)
(* Exhausted chain claims                                                  *)
(***************************************************************************)
\* In this step the running user function calls next() with no error, and
\* the cursor has passed the last chain entry.
NextPastEnd ==
    /\ stack # <<>>
    /\ idx = Len(chain)
    /\ LET i == stack[Len(stack)]
           h == Library[chain[i].fn]
       IN  /\ ent[i].pc <= Len(h.script)
           /\ h.script[ent[i].pc] \in {"next", "anext"}
           /\ ent'[i].nexts = ent[i].nexts + 1

\* handle / fetch return in this step without an error reaching their catch.
ReturnsClean == top = "waiting" /\ top' = "done" /\ handled' = handled

\* C25: a next() call with no error past the last chain entry starts no
\* handler, hands no error to the error responder, rejects nothing and leaves
\* the response and what the client has received as they are; when handle or
\* fetch then return, nothing is written (no 404): the client of fetch gets
\* the status and body the handlers set, the client of handle gets nothing
\* more than the handlers wrote.
C25_NextPastEndIsNoOp ==
    [][/\ NextPastEnd =>
             /\ started' = started
             /\ idx' = idx
             /\ handled' = handled
             /\ unhandled' = unhandled
             /\ res' = res
             /\ client' = client
       /\ ReturnsClean =>
             /\ res' = res
             /\ started' = started
             /\ client' = IF transport = "fetch"
                          THEN Response(res.body, res.status)
                          ELSE client]_vars

\* A route matched, its only handler called next() and wrote nothing: handle
\* has returned and the client has received nothing.
C25_Witness ==
    /\ transport = "node"
    /\ top = "done"
    /\ found.result.ok
    /\ middlewares = <<>>
    /\ Len(chain) = 1
    /\ chain[1].fn = "dsNext"
    /\ ent[1].nexts = 1
    /\ ent[1].st = "ret"
    /\ handled = <<>>
    /\ res = FreshResponse
    /\ client = NoResponse

\* The same through fetch: the Response has status 200 and no body.
C25_WitnessFetch ==
    /\ transport = "fetch"
    /\ top = "done"
    /\ found.result.ok
    /\ Len(chain) = 1
    /\ chain[1].fn = "dsNext"
    /\ ent[1].nexts = 1
    /\ handled = <<>>
    /\ client = [status |-> 200, body |-> [empty |-> TRUE]]

\* The last handler wrote and then called next(): the client keeps what it wrote.
C25_WitnessWrote ==
    /\ transport = "node"
    /\ top = "done"
    /\ chain # <<>>
    /\ chain[Len(chain)].fn = "dsWriteNext"
    /\ ent[Len(chain)].nexts = 1
    /\ ent[Len(chain)].st = "ret"
    /\ handled = <<>>
    /\ client = [status |-> 200, body |-> [by |-> Len(chain), user |-> "unread"]]

(***************************************************************************)
(* try / catch around next() claims                                        *)
(***************************************************************************)
\* The chain entries after entry i whose user function threw.
ThrewAfter(i) == {j \in DOMAIN ent : j > i /\ ent[j].st = "fail"}

\* Entry i is the try / catch middleware and has called next().
Catching(i) == chain[i].fn = "dsCatch" /\ ent[i].nexts = 1

\* C22: once nothing more of the request can happen, a middleware written as
\* try { await next() } catch (e) { ... } has received in its catch block the
\* error thrown by a chain entry after it.
C22_CatchReceivesError ==
    Quiet =>
       \A i \in DOMAIN ent :
          (Catching(i) /\ ThrewAfter(i) # {})
             => \E j \in ThrewAfter(i) : ent[i].caught = ent[j].result

\* The middleware awaited next(), the next entry threw, the error responder
\* of next() answered, and the middleware returned without its catch block
\* having run.
C22_ErrorNeverCaught ==
    /\ Quiet
    /\ top = "done"
    /\ Len(chain) >= 2
    /\ Catching(1)
    /\ chain[2].fn \in {"dsThrow", "dsSetThrow"}
    /\ ent[2].st = "fail"
    /\ ent[2].result \in UserErrors
    /\ handled = <<ent[2].result>>
    /\ ent[1].st = "ret"
    /\ ent[1].caught = NoError
    /\ ent[1].nextp = Resolved

\* The catch block runs when the error responder itself fails: the entry
\* after the middleware wrote the response and then threw.
C22_CatchReached ==
    /\ Len(chain) >= 2
    /\ Catching(1)
    /\ chain[2].fn = "dsWriteThrow"
    /\ ent[1].caught = HeadersSent

\* No catch block of such a middleware ever receives an error thrown by a
\* user function: what it can receive is the failure of the error responder.
C22_CatchSeesOnlyResponderFailure ==
    \A i \in DOMAIN ent : ent[i].caught \in {NoError, HeadersSent}

(***************************************************************************)
(* Repeated adaptation claims                                              *)
(***************************************************************************)
\* The same user function adapted once and called with the same context, run
\* until nothing more can happen (it raises the error it raised here): its
\* outcomes.
AdaptedOnceRun ==
    LET d1 == [DispatchIdle EXCEPT !.chain = <<adaptRequestHandler(raw(chain[1].fn))>>,
                                   !.ent = <<EntryIdle>>]
        n == next(d1, NoError, 0)
    IN  runAlone(unwind([n.d EXCEPT !.ent[1].watched = TRUE]), "waiting")

SameAsOnce ==
    \E once \in AdaptedOnceRun :
        /\ argsOf(D, 1) = userArgs(adapter, FullContext, Library[chain[1].fn])
        /\ ent[1].st = once.d.ent[1].st
        /\ ent[1].adapted = once.d.ent[1].adapted
        /\ ent[1].nexts = once.d.ent[1].nexts
        /\ req.user = once.d.req.user
        /\ res = once.d.res
        /\ handled = once.d.handled

\* C28: a user function adapted twice is called with the request, response
\* and next it is called with when adapted once, and once nothing more can
\* happen its adapter has settled the same way and the request and response
\* are the same, for every handler style and both adapters.
C28_AdaptationIdempotent ==
    (Quiet /\ chain # <<>> /\ chain[1].wraps = 2) => SameAsOnce

\* What holds: with the azurajs/ adapter, for functions declared with one,
\* two or three parameters.
C28_HoldsForV2Declared ==
    (Quiet /\ chain # <<>> /\ chain[1].wraps = 2 /\ adapter = "v2"
        /\ Library[chain[1].fn].style # "bare") => SameAsOnce

\* v1: the route handler ({req, res}) => res.json(...) adapted twice finds its
\* req undefined and throws a TypeError; adapted once it writes the response.
C28_TwiceLosesRequest ==
    /\ adapter = "v1"
    /\ transport = "node"
    /\ Quiet
    /\ chain # <<>>
    /\ chain[1] = [fn |-> "hSync", wraps |-> 2]
    /\ argsOf(D, 1).req = "undefined"
    /\ ent[1].adapted = Rejected(TypeError)
    /\ \A once \in AdaptedOnceRun :
          once.d.ent[1].adapted = Resolved /\ once.d.res.ended
    /\ ~res.ended \/ res.status = 500

\* v2: the function (ctx) => ... of no declared parameter, adapted twice, is
\* handed {req, res, next}: its ctx.request is undefined.
C28_TwiceLosesContext ==
    /\ adapter = "v2"
    /\ Quiet
    /\ chain # <<>>
    /\ chain[1] = [fn |-> "hBare", wraps |-> 2]
    /\ argsOf(D, 1).req = "undefined"
    /\ ent[1].adapted = Rejected(TypeError)
    /\ \A once \in AdaptedOnceRun : once.d.ent[1].adapted = Resolved

(***************************************************************************)
(* Proxy claims                                                            *)
(***************************************************************************)
\* The path of the request received: rawReq.path.
requestPath == IF found.called THEN found.path ELSE req.path

\* The registered proxies whose path the request path starts with.
Matching == { k \in DOMAIN proxies : startsWith(requestPath, proxies[k].path) }

FirstMatching == CHOOSE k \in Matching : \A j \in Matching : k <= j

\* The request has been received by handle, which has reached its try block.
Received == top \notin {"setup", "arrived"} /\ transport = "node"

\* Routing proceeded normally: find was called for the request and the chain
\* is the global middleware followed by the handlers it returned.
RoutedNormally ==
    /\ found.called
    /\ found.result = find(found.method, found.path)
    /\ IF found.result.ok
       THEN /\ req.method = found.method
            /\ req.path = found.path
            /\ chain = buildChain(middlewares, found.result.handlers)
       ELSE started = <<>>
    /\ proxying = NoProxy

\* C21: a request received by handle whose path starts with the path of a
\* registered proxy is never looked up in the router, its chain holds the
\* global middleware and no route handler, and no proxy handler other than
\* that of the first registered matching proxy is called, at most once; a
\* request whose path matches no proxy is routed normally.
C21_ProxyBeforeRouting ==
    Received =>
        IF Matching # {}
        THEN /\ ~found.called
             /\ chain = buildChain(middlewares, <<>>)
             /\ \A i \in DOMAIN started : started[i] <= Len(middlewares)
             /\ proxying.at = FirstMatching
             /\ proxying.invoked \in {<<>>, <<FirstMatching>>}
        ELSE RoutedNormally

\* Two proxies match GET /a, which also has a route, behind a middleware that
\* passes on: handle has returned, the middleware ran, the handler of the first
\* registered proxy has been called, and the route was not looked up.
C21_Witness ==
    /\ Received
    /\ top = "done"
    /\ req.path = <<"/", "a">>
    /\ Len(proxies) = 2
    /\ Matching = {1, 2}
    /\ proxies[1].path # proxies[2].path
    /\ <<nodeA, "GET">> \in DOMAIN handlers
    /\ middlewares = <<raw("dsNext")>>
    /\ started = <<1>>
    /\ proxying.invoked = <<1>>
    /\ ~found.called

\* The target answers 200 with a body: the response callback, a chunk and the
\* end of the body have passed, and the client has the answer of the target.
C21_WitnessUpstreamAnswer ==
    /\ Received
    /\ top = "done"
    /\ proxying.invoked = <<1>>
    /\ ~found.called
    /\ proxying.upstream = "done"
    /\ res.ends = 1
    /\ client = [status |-> 200, body |-> Text(<<"upstream">>)]

\* The response callback of the proxy has run and the body has not arrived,
\* while a middleware that had called next() is still at work.
C21_WitnessWorkInFlight ==
    /\ Received
    /\ top = "done"
    /\ proxying.invoked = <<1>>
    /\ proxying.upstream = "piping"
    /\ chain # <<>>
    /\ fnAt(1) = "cbNextWrite"
    /\ ent[1].st = "work"
    /\ res.status = 404
    /\ ~res.headersSent

\* ... and that middleware answered before the body arrived: the client has
\* the status of the target with the body of the middleware; the pipe was
\* undone when the response finished, so the body of the target is lost and
\* rawRes.end() is not called again.
C21_WitnessAnswerWhilePiping ==
    /\ Received
    /\ top = "done"
    /\ proxying.invoked = <<1>>
    /\ proxying.upstream = "done"
    /\ chain # <<>>
    /\ fnAt(1) = "cbNextWrite"
    /\ ent[1].st = "ret"
    /\ ~found.called
    /\ res.closed
    /\ ~res.uncaught
    /\ res.ends = 1
    /\ client = [status |-> 404, body |-> [by |-> 1, user |-> "unread"]]

\* A middleware had answered before the pipe was attached: the pipe stays
\* attached to the ended response, and at the end of the body of the target,
\* or at an 'error' that completes a body delimited by the close of the
\* connection, it calls rawRes.end() once more.
C21_WitnessEndedBeforePipe ==
    /\ Received
    /\ top = "done"
    /\ proxying.invoked = <<1>>
    /\ proxying.upstream = "done"
    /\ proxying.piped
    /\ proxying.framing = "close"
    /\ chain # <<>>
    /\ fnAt(1) = "hSync"
    /\ res.status = 404
    /\ res.sent = 200
    /\ res.ends = 2
    /\ ~res.uncaught

\* The target stalls after a chunk of the body: 'timeout' finds the headers
\* sent and answers nothing, and the response never ends.
C21_WitnessStalled ==
    /\ Received
    /\ proxying.upstream = "done"
    /\ res.headersSent
    /\ ~res.ended
    /\ res.body = Text(<<"upstream">>)
    /\ client = NoResponse

\* A proxy is registered, the request matches none: the route handler answers.
C21_WitnessNoMatch ==
    /\ Received
    /\ top = "done"
    /\ proxies # <<>>
    /\ Matching = {}
    /\ found.called
    /\ found.result.ok
    /\ started # <<>>
    /\ res.ended
    /\ proxying.invoked = <<>>

\* The match is on characters, not on segments: the proxy of /a takes /ab.
C21_WitnessStringPrefix ==
    /\ Received
    /\ top = "done"
    /\ req.path = <<"/", "a", "b">>
    /\ proxies = <<[path |-> <<"/", "a">>, target |-> tUp]>>
    /\ proxying.invoked = <<1>>
    /\ ~found.called

\* The target of the proxy of / does not parse: the proxy handler answers
\* GET /b with 500 itself, and nothing is sent to a target.
C21_WitnessSetupError ==
    /\ Received
    /\ top = "done"
    /\ req.path = <<"/", "b">>
    /\ proxies = <<[path |-> <<"/">>, target |-> tBad]>>
    /\ proxying.invoked = <<1>>
    /\ proxying.upstream = "none"
    /\ res.ends = 1
    /\ client = [status |-> 500,
                 body |-> [error |-> "Internal Server Error",
                           message |-> "Failed to setup proxy"]]

\* The target cannot be reached: the proxy answers 502.
C21_WitnessBadGateway ==
    /\ Received
    /\ top = "done"
    /\ proxying.invoked = <<1>>
    /\ ~found.called
    /\ handled = <<>>
    /\ client = [status |-> 502,
                 body |-> [error |-> "Bad Gateway",
                           message |-> "Failed to connect to upstream server"]]

\* What comes from the target changes the response alone: the lookup, the
\* chain, the cursor, the chain entries and the proxy handlers called stay as
\* handle left them.
C21_UpstreamFrame ==
    [][(proxying.upstream # "none" /\ proxying'.upstream # proxying.upstream) =>
          /\ UNCHANGED <<found, req, chain, idx, ent, started, handled, top>>
          /\ proxying'.at = proxying.at
          /\ proxying'.invoked = proxying.invoked]_vars

\* The proxy handler answers the request at most once, and only when it was
\* called.
C21_ProxyAnswersOnce ==
    Received =>
        /\ res.writes <= 1
        /\ proxying.upstream # "none" => proxying.invoked # <<>>
        /\ (client # NoResponse /\ client.status \in {502, 504}) =>
               proxying.upstream = "done"

\* fetch has no proxy loop: the request is routed although a proxy matches.
C21_WitnessFetchRoutes ==
    /\ transport = "fetch"
    /\ top = "done"
    /\ Matching # {}
    /\ found.called
    /\ proxying = NoProxy

\* The proxy handler of the request has been called.
ProxyInvoked == Received /\ proxying.invoked # <<>>

\* Chain entry i passed control on: its user function called next() with no
\* error and threw nothing.
PassedOn(i) ==
    /\ ent[i].st # "idle"
    /\ ent[i].nexts >= 1
    /\ ent[i].signalled = NoError
    /\ ent[i].thrown = NoError

\* C30: the proxy handler is called only when every global middleware has run
\* and passed control on by calling next() without an error: a middleware
\* that signals an error or that ends the response itself without calling
\* next() keeps the proxy handler from running.
C30_ProxyOnlyAfterMiddlewarePassed ==
    ProxyInvoked =>
        /\ Len(started) = Len(middlewares)
        /\ \A i \in DOMAIN ent : PassedOn(i)

\* What holds: the proxy handler is not called once errorHandler has been
\* called for the request, and not before the first middlewareNext() settled;
\* errorHandler can still be called after it, for a middleware that goes on
\* after its next().
C30_ProxyOnlyWithoutHandledError ==
    [][(proxying'.invoked # proxying.invoked) =>
          /\ handled = <<>>
          /\ handled' = <<>>
          /\ top' = "done"
          /\ started # <<>> => ent[started[1]].nextp = Resolved]_vars

\* Two middleware call next() and then write: the second finds the headers
\* sent, and errorHandler is called for it after the proxy handler.
C30_ErrorAfterProxy ==
    /\ ProxyInvoked
    /\ Len(middlewares) = 2
    /\ middlewares[1] = raw("cbNextWrite")
    /\ handled = <<HeadersSent>>
    /\ res.writes = 1

\* app.use(({res}) => res.json(...)): the middleware answers the request and
\* does not call next(); the proxy handler is called all the same.
C30_ProxyAfterResponseEnded ==
    /\ ProxyInvoked
    /\ middlewares = <<raw("hSync")>>
    /\ ent[1].nexts = 0
    /\ ent[1].adapted = Resolved
    /\ res.ended
    /\ res.writes = 1
    /\ handled = <<>>

\* The second middleware never ran: the first ended the response.
C30_ProxyAfterSkippedMiddleware ==
    /\ ProxyInvoked
    /\ Len(middlewares) = 2
    /\ middlewares[1] = raw("hSync")
    /\ started = <<1>>
    /\ ent[2].st = "idle"

\* azurajs/ adapter: the error a callback middleware passes to next() never
\* reaches errorHandler, and the proxy handler is called.
C30_ProxyAfterSignalledError ==
    /\ ProxyInvoked
    /\ adapter = "v2"
    /\ \E i \in DOMAIN ent : ent[i].signalled # NoError
    /\ handled = <<>>

\* ... and when the target answers, the callback of the proxy sets a header
\* on the response the middleware has sent: it throws, in no try block.
C30_UpstreamAfterResponseEnded ==
    /\ ProxyInvoked
    /\ middlewares = <<raw("hSync")>>
    /\ ent[1].nexts = 0
    /\ res.writes = 1
    /\ client.body = [by |-> 1, user |-> "nouser"]
    /\ proxying.upstream = "done"
    /\ res.uncaught

\* A middleware threw: errorHandler answered 500 and the proxy handler was not
\* called.
C30_ErrorStopsProxy ==
    /\ Received
    /\ top = "done"
    /\ proxying.at # 0
    /\ middlewares # <<>>
    /\ handled # <<>>
    /\ res.status = 500
    /\ proxying.invoked = <<>>

(***************************************************************************)
(* fetch Response claims                                                   *)
(***************************************************************************)
\* fetch has returned its Response.
FetchReturned == transport = "fetch" /\ top = "done"

\* Chain entry i was invoked and its user function has not finished.
StillRunning(i) == ent[i].st \in {"run", "work", "await"}

\* C29: once fetch has returned its Response, no chain entry invoked for the
\* request is still running, and the Response carries the status and the body
\* the entries set, whether or not they awaited the next() they called.
C29_FetchResponseComplete ==
    FetchReturned =>
        /\ \A i \in DOMAIN ent : ~StillRunning(i)
        /\ client = [status |-> res.status, body |-> res.body]

\* What holds: the Response is built from the status and body as they are
\* when the promise of the first next() has settled.
C29_ResponseOfFirstNext ==
    [][(transport = "fetch" /\ top = "waiting" /\ top' = "done") =>
          /\ client' = [status |-> res'.status, body |-> res'.body]
          /\ started # <<>> => ent[started[1]].nextp.s # "pending"]_vars

\* app.use(({next}) => { next(); next(); }) before an async route handler:
\* fetch returned an empty 200 while the handler was still at work.
C29_ReturnedWhileRunning ==
    /\ FetchReturned
    /\ Len(chain) = 2
    /\ chain[1].fn = "dsTwice" /\ chain[2].fn = "hAsync"
    /\ ent[2].st = "work"
    /\ client = [status |-> 200, body |-> [empty |-> TRUE]]

\* ... and the body the handler wrote afterwards is not in the Response.
C29_WriteAfterResponse ==
    /\ FetchReturned
    /\ Quiet
    /\ Len(chain) = 2
    /\ chain[1].fn = "dsTwice" /\ chain[2].fn = "hAsync"
    /\ ent[2].st = "ret"
    /\ res.body # [empty |-> TRUE]
    /\ client = [status |-> 200, body |-> [empty |-> TRUE]]

\* Every handler awaited its next(): the Response has what the last one wrote.
C29_AwaitedChainComplete ==
    /\ FetchReturned
    /\ Len(chain) = 2
    /\ chain[1].fn = "dsPass" /\ chain[2].fn = "hAsync"
    /\ ent[2].st = "ret"
    /\ client = [status |-> res.status, body |-> res.body]
    /\ client.body # [empty |-> TRUE]

(***************************************************************************)
(* Router.use(middleware) claims                                           *)
(***************************************************************************)
\* The functions given to use(mw) on the second router.
SubMiddlewares == { subRouter.middlewares[k] : k \in DOMAIN subRouter.middlewares }

\* The step is a use(mw) call on the second router.
SubUsed(before, after) == after.middlewares # before.middlewares

\* find, listRoutes and mounting give the same for the routers s and t.
SameRouting(s, t) ==
    /\ listRoutes(secondRouter(s)) = listRoutes(secondRouter(t))
    /\ \A m \in {"GET", "POST"} : \A r \in SubRoutes :
          findIn(secondRouter(s), m, r.path) = findIn(secondRouter(t), m, r.path)
    /\ \A p \in MountPrefixes :
          use(NewRouter, p, secondRouter(s)) = use(NewRouter, p, secondRouter(t))

\* The handlers found are those of one add call on the second router.
FoundSubChain(f) ==
    \E k \in DOMAIN subRouter.calls : f.result.handlers = subChain(k)

\* C27: use(mw) on a router appends mw to its middleware list and changes
\* nothing else: every find, listRoutes and mounting of that router gives what
\* it gave before, and this router and the server's own middleware are
\* untouched; and the handlers found for a request to a mounted route are the
\* handlers the route was registered with, with no middleware of the mounted
\* router among them.
C27_RouterUseIsInert ==
    [][/\ SubUsed(subRouter, subRouter') =>
            /\ Len(subRouter'.middlewares) = Len(subRouter.middlewares) + 1
            /\ SubSeq(subRouter'.middlewares, 1, Len(subRouter.middlewares))
                  = subRouter.middlewares
            /\ subRouter'.calls = subRouter.calls
            /\ SameRouting(subRouter, subRouter')
            /\ UNCHANGED <<children, paramName, handlers, middlewares, found>>
       /\ (found'.called /\ found'.result.ok) =>
            /\ FoundSubChain(found')
            /\ \A i \in DOMAIN found'.result.handlers :
                  found'.result.handlers[i] \notin SubMiddlewares
            /\ \A i \in DOMAIN middlewares' : middlewares'[i] \notin SubMiddlewares
      ]_vars

\* The second router has two middleware and a route; it is mounted, and the
\* route is found under the prefix with its own two handlers.
C27_Witness ==
    /\ subRouter.middlewares = <<subMiddleware(1), subMiddleware(2)>>
    /\ subRouter.mounted
    /\ subRouter.at >= 1
    /\ found.called
    /\ found.result.ok
    /\ found.result.handlers = subChain(1)

\* use(mw) was called on a router that has a route, before it is mounted.
C27_WitnessUseBeforeMount ==
    /\ subRouter.middlewares # <<>>
    /\ subRouter.calls # <<>>
    /\ ~subRouter.mounted

(***************************************************************************)
(* request.ip claims                                                       *)
(***************************************************************************)
\* trustProxy is false, or left undefined.
TrustsNothing == resolved.trustProxy \in {TrustUndefined, TrustBoolean(FALSE)}

\* C23: with trustProxy false, two requests from the same peer that differ
\* only in their X-Forwarded-For / X-Real-IP headers get the same ip and ips,
\* the address of the peer, on handle and on fetch.
C23_IpIgnoresHeaders ==
    (resolved.done /\ TrustsNothing) =>
        /\ resolved.ipA = resolved.ipB
        /\ resolved.ipA.ip = socketIpOf(resolved.peer)

\* What holds: the same on handle alone.
C23_IpIgnoresHeadersOnNode ==
    (resolved.done /\ TrustsNothing /\ transport = "node") =>
        /\ resolved.ipA = resolved.ipB
        /\ resolved.ipA.ip = socketIpOf(resolved.peer)
        /\ resolved.ipA.ips = IF resolved.peer = <<>> THEN <<>> ELSE <<resolved.ipA.ip>>

\* fetch, trustProxy false: the request with X-Real-IP: 7.7.7.7 gets ip
\* 7.7.7.7, the one without any of the headers gets 127.0.0.1.
C23_FetchIpFromHeader ==
    /\ resolved.done
    /\ transport = "fetch"
    /\ resolved.trustProxy = TrustBoolean(FALSE)
    /\ resolved.a = [xForwardedFor |-> NoHeader,
                     xRealIp |-> HeaderValue(<<Piece(FALSE, <<"7.7.7.7">>)>>)]
    /\ resolved.b = [xForwardedFor |-> NoHeader, xRealIp |-> NoHeader]
    /\ resolved.ipA = [ip |-> <<"7.7.7.7">>, ips |-> <<<<"7.7.7.7">>>>]
    /\ resolved.ipB = [ip |-> <<"127.0.0.1">>, ips |-> <<<<"127.0.0.1">>>>]

\* handle, trustProxy false: the peer ::ffff:10.0.0.1 gives ip 10.0.0.1 with
\* and without the headers.
C23_NodeIpFromSocket ==
    /\ resolved.done
    /\ transport = "node"
    /\ resolved.trustProxy = TrustBoolean(FALSE)
    /\ resolved.peer = <<"::ffff:", "10.0.0.1">>
    /\ ~resolved.a.xForwardedFor.absent
    /\ ~resolved.a.xRealIp.absent
    /\ resolved.b = [xForwardedFor |-> NoHeader, xRealIp |-> NoHeader]
    /\ resolved.ipA = [ip |-> <<"10.0.0.1">>, ips |-> <<<<"10.0.0.1">>>>]
    /\ resolved.ipB = resolved.ipA

====
